---- MODULE Spec2Model ----
(***************************************************************************)
(* Synchronisation and resilience layer of the FlowDesk CRM backend:       *)
(*   - withRetry, the 429-aware request executor (utils/rateLimitRetry.js) *)
(*   - the token lifecycle of connected accounts (services/fanvueApi.js,   *)
(*     services/tokenRefresh.js, routes/oauth.js)                          *)
(*   - the inbox cache: poller, sync-now, webhook and outbound send        *)
(*     (services/inboxPoller.js, routes/conversations.js,                  *)
(*     routes/webhooks.js)                                                 *)
(* Each part has its own specification over the shared variables; the      *)
(* variables of the other parts stay at their initial values.              *)
(***************************************************************************)
EXTENDS Integers, Sequences, FiniteSets, TLC

VARIABLES
  \* ---- withRetry (one call of it) ----
  maxRetries,     \* opts.maxRetries
  baseDelayMs,    \* opts.baseDelayMs
  attempt,        \* let attempt
  rpc,            \* position inside withRetry
  calls,          \* number of invocations of fn so far
  sleeps,         \* number of setTimeout sleeps started so far
  waits,          \* the waitMs values computed so far, in order
  jitters,        \* the Math.random()*500 outcome of each computed wait (-1: none drawn)
  lastErr,        \* the error fn last rejected with
  dateNow,        \* Date.now(), advanced by the sleeps
  outcome,        \* "none" | [kind |-> "returned", value] | [kind |-> "thrown", err]
  \* ---- connected_accounts rows, by account id ----
  is_active,
  needs_reconnect,
  access_token_enc,
  refresh_token_enc,
  token_expires_at,
  \* ---- the provider's token endpoint ----
  provCurrent,    \* the token pair the provider accepts for the account (0: none)
  provIssued,     \* number of token pairs issued for the account so far
  \* ---- time and running handlers ----
  nowMin,         \* wall clock, minutes
  task,           \* the running pollAccount / job refresh, by task id
  lastAnswer,     \* the token endpoint's latest answer to a refresh POST
  \* ---- the inbox cache of one (account, fan) conversation key ----
  thread,         \* the provider's messages of the fan's chat, oldest first
  conversation,   \* the conversations row of the key
  messages,       \* the rows of the messages table
  sends,          \* number of rows the send route has inserted (their uuidv4 ids)
  pollSt,         \* the running pollAccount
  syncSt,         \* the running syncInbox
  hookSt,         \* the running webhook handler
  sendSt,         \* the running send route
  seen,           \* index of the newest message the remote has handed a reconciler
  \* ---- one fetchEarnings / fetchSubscribers call ----
  startDate,      \* the range, as day numbers (YYYY-MM-DD strings)
  endDate,
  fetchKind,      \* "earnings" | "subscribers"
  cursorLimit,    \* the remote hands out a nextCursor on its first cursorLimit pages
  chunks,         \* const chunks = buildChunks(startDate, endDate)
  fpc,            \* position inside the fetch
  batchAt,        \* the loop index i of the running batch (0-based)
  win,            \* per window: the running fetchEarningsChunk / subscribers callback
  allData,        \* const allData
  \* -- the poller's tick and the inbox_sync_state table (part_008)
  tick,           \* the cron callback: position, the selected accounts, chunks
  runs,           \* per pollAccount execution: position, account, caught error
  sync_state,     \* inbox_sync_state, one row per account
  flagged,        \* connected_accounts.needs_reconnect as the poller's refresh sets it
  \* -- the client's outbound send queue
  msgQueue,       \* the ids of the items waiting to be sent, in order of arrival
  item,           \* the visible list: per client temp id, its state and arrival number
  processing,     \* whether the processQueue() loop is running
  pushes,         \* number of arrivals in msgQueue so far
  sentLog,        \* the ids in the order of their 'sent' transitions
  \* -- the webhook endpoint (part_003)
  webhook         \* the delivery being handled: request, position, response, writes

retryVars == <<maxRetries, baseDelayMs, attempt, rpc, calls, sleeps, waits,
               jitters, lastErr, dateNow, outcome>>

tokenVars == <<is_active, needs_reconnect, access_token_enc, refresh_token_enc,
               token_expires_at, provCurrent, provIssued, nowMin, task, lastAnswer>>

cacheVars == <<thread, conversation, messages, sends, pollSt, syncSt,
               hookSt, sendSt, seen>>

fetchVars == <<startDate, endDate, fetchKind, cursorLimit, chunks, fpc, batchAt,
               win, allData>>

pollerVars == <<tick, runs, sync_state, flagged>>

queueVars == <<msgQueue, item, processing, pushes, sentLog>>

webhookVars == <<webhook>>

vars == <<retryVars, tokenVars, cacheVars, fetchVars, pollerVars, queueVars,
          webhookVars>>

\* What a step of one part leaves alone: the variables of the other parts.
otherThanRetry == <<tokenVars, cacheVars, fetchVars, pollerVars, queueVars,
                   webhookVars>>
otherThanToken == <<retryVars, cacheVars, fetchVars, pollerVars, queueVars,
                   webhookVars>>
otherThanCache == <<retryVars, tokenVars, fetchVars, pollerVars, queueVars,
                   webhookVars>>
otherThanFetch == <<retryVars, tokenVars, cacheVars, pollerVars, queueVars,
                   webhookVars>>
otherThanPoller == <<retryVars, tokenVars, cacheVars, fetchVars, queueVars,
                   webhookVars>>
otherThanQueue == <<retryVars, tokenVars, cacheVars, fetchVars, pollerVars,
                   webhookVars>>
otherThanWebhook == <<retryVars, tokenVars, cacheVars, fetchVars, pollerVars,
                     queueVars>>

Max(a, b) == IF a >= b THEN a ELSE b

(***************************************************************************)
(* withRetry                                                               *)
(***************************************************************************)

\* Bounds of the withRetry model.
MaxRetriesBound == 3
DefaultBaseDelayMs == 1000
JitterRangeMs == 500

\* err.response?.status is undefined when the error carries no response.
NoStatus == 0
Statuses == {429, 500, 401, NoStatus}

\* The retry-after header of an error response: no header, an empty value,
\* a decimal seconds count, or an HTTP-date (its epoch milliseconds).
NoHeader == [kind |-> "absent"]
SecondsValues == {0 - 1, 0, 2}
DateValues == {5000, 13000}
StartMs == 10000
Headers ==
  {NoHeader, [kind |-> "empty"]}
    \cup {[kind |-> "seconds", n |-> n] : n \in SecondsValues}
    \cup {[kind |-> "date", t |-> t] : t \in DateValues}

Errors == [status : Statuses, retryAfter : Headers]
NoError == [status |-> NoStatus, retryAfter |-> NoHeader]

BaseDelays == {DefaultBaseDelayMs, JitterRangeMs, 200}
Jitters == {0, JitterRangeMs - 1}

\* if (retryAfterHeader): undefined and the empty string are falsy.
Truthy(h) == h.kind \notin {"absent", "empty"}

\* isNaN(Number(retryAfterHeader)): a date string does not convert to a number.
IsNaNNumber(h) == h.kind = "date"

\* Mutant of the wait: jitter is added on the Retry-After path too.
ComputeWaitMsJitterEverywhere(err, att, base, jitter, now) ==
  LET h == err.retryAfter IN
  IF Truthy(h)
    THEN (IF IsNaNNumber(h) THEN Max(0, h.t - now) ELSE h.n * 1000) + jitter
    ELSE base * (2 ^ att) + jitter

\* Mutant of the wait: the backoff does not grow with the attempt.
ComputeWaitMsNoGrowth(err, att, base, jitter, now) ==
  LET h == err.retryAfter IN
  IF Truthy(h)
    THEN IF IsNaNNumber(h) THEN Max(0, h.t - now) ELSE h.n * 1000
    ELSE base + jitter

\* Lines 33-45: the wait before the next attempt.
ComputeWaitMs(err, att, base, jitter, now) ==
  LET h == err.retryAfter IN
  IF Truthy(h)
    THEN IF IsNaNNumber(h) THEN Max(0, h.t - now) ELSE h.n * 1000
    ELSE base * (2 ^ att) + jitter

\* Mutants of the rethrow test: retry whatever the status; one retry too many.
RethrowsAnyStatusRetried(err, att, maxR) == att >= maxR
RethrowsOffByOne(err, att, maxR) == err.status # 429 \/ att > maxR

\* Line 29: the error is rethrown instead of retried.
Rethrows(err, att, maxR) == err.status # 429 \/ att >= maxR

RetryInit ==
  /\ maxRetries \in 0..MaxRetriesBound
  /\ baseDelayMs \in BaseDelays
  /\ attempt = 0
  /\ rpc = "start"
  /\ calls = 0
  /\ sleeps = 0
  /\ waits = <<>>
  /\ jitters = <<>>
  /\ lastErr = NoError
  /\ dateNow = StartMs
  /\ outcome = [kind |-> "none"]

\* Line 25: fn() is invoked.
InvokeFn ==
  /\ UNCHANGED otherThanRetry
  /\ rpc = "start"
  /\ rpc' = "inflight"
  /\ calls' = calls + 1
  /\ UNCHANGED <<maxRetries, baseDelayMs, attempt, sleeps, waits, jitters,
                 lastErr, dateNow, outcome>>

\* Line 25: fn() resolves and withRetry returns its value.
FnResolves ==
  /\ UNCHANGED otherThanRetry
  /\ rpc = "inflight"
  /\ rpc' = "returned"
  /\ outcome' = [kind |-> "returned", value |-> "data"]
  /\ UNCHANGED <<maxRetries, baseDelayMs, attempt, calls, sleeps, waits,
                 jitters, lastErr, dateNow>>

\* Lines 26-31: fn() rejects and the error is rethrown.
FnRejectsThrow(err) ==
  /\ UNCHANGED otherThanRetry
  /\ rpc = "inflight"
  /\ Rethrows(err, attempt, maxRetries)
  /\ rpc' = "thrown"
  /\ lastErr' = err
  /\ outcome' = [kind |-> "thrown", err |-> err]
  /\ UNCHANGED <<maxRetries, baseDelayMs, attempt, calls, sleeps, waits,
                 jitters, dateNow>>

\* Lines 26-48: fn() rejects with a 429 while attempts remain; the wait is
\* computed and the sleep starts.
FnRejectsRetry(err, jitter) ==
  /\ UNCHANGED otherThanRetry
  /\ rpc = "inflight"
  /\ ~Rethrows(err, attempt, maxRetries)
  /\ rpc' = "sleeping"
  /\ lastErr' = err
  /\ waits' = Append(waits, ComputeWaitMs(err, attempt, baseDelayMs, jitter, dateNow))
  /\ jitters' = Append(jitters, IF Truthy(err.retryAfter) THEN 0 - 1 ELSE jitter)
  /\ sleeps' = sleeps + 1
  /\ UNCHANGED <<maxRetries, baseDelayMs, attempt, calls, dateNow, outcome>>

\* Lines 48-49: the sleep ends, attempt++ and the loop starts over.
SleepDone ==
  /\ UNCHANGED otherThanRetry
  /\ rpc = "sleeping"
  /\ attempt' = attempt + 1
  /\ rpc' = "start"
  /\ dateNow' = dateNow + Max(0, waits[Len(waits)])
  /\ UNCHANGED <<maxRetries, baseDelayMs, calls, sleeps, waits, jitters,
                 lastErr, outcome>>

RetryNext ==
  \/ InvokeFn
  \/ FnResolves
  \/ \E err \in Errors : FnRejectsThrow(err)
  \/ \E err \in Errors, jitter \in Jitters : FnRejectsRetry(err, jitter)
  \/ SleepDone

(***************************************************************************)
(* Token lifecycle: getValidToken, refreshToken, fanvueRequest, the poll    *)
(* tick, the hourly refresh job, the OAuth callback and disconnect          *)
(***************************************************************************)

Accounts == {"a1"}
PollTasks == {<<"poll", a>> : a \in Accounts}
JobTasks == {<<"job", a>> : a \in Accounts}
Tasks == PollTasks \cup JobTasks
Kind(t) == t[1]
Acct(t) == t[2]

\* Bounds of the token model: token pairs issued per account, clock range.
MaxIssued == 3
MaxClockMin == 60

\* getValidToken's safety window (5 * 60 * 1000 ms), the provider's
\* expires_in (3600 s) and the refresh job's horizon (2 h), in minutes.
SafetyWindowMin == 5
ExpiresInMin == 60
JobHorizonMin == 120
ClockSteps == {ExpiresInMin}

\* encrypt / decrypt: AES-GCM ciphertext of a token; a cleared column is NULL.
NullEnc == [kind |-> "null"]
Encrypt(tok) == [kind |-> "enc", pt |-> tok]
Decrypt(enc) == enc.pt
DecryptThrows(enc) == enc.kind = "null"

\* The row of connected_accounts a handler selected.
Row(a) ==
  [access_token_enc |-> access_token_enc[a],
   refresh_token_enc |-> refresh_token_enc[a],
   token_expires_at |-> token_expires_at[a]]
NoRow == [access_token_enc |-> NullEnc, refresh_token_enc |-> NullEnc,
          token_expires_at |-> 0]

\* A handler's position and locals.
\*   pc      idle | posting (refresh POST in flight) | persist | deact | api
\*   account the row it selected;  origin  who called refreshToken
\*   token   the access token in hand: of the provider's answer, then the
\*           bearer token of the API call
\*   answer  the token endpoint's answer (kept while the deactivation runs)
\*   stage   the poll's current remote call: chats | msgs
\*   refreshes  the refresh POSTs this handler has issued since it started
IdleTask ==
  [pc |-> "idle", account |-> NoRow, origin |-> "none", token |-> 0,
   answer |-> "none", stage |-> "none", refreshes |-> 0]

\* Mutants of the deactivation test: every failure deactivates; only 401 does.
DefinitiveAlways(status) == TRUE
DefinitiveOnly401(status) == status = 401

\* fanvueApi.js:52-53: a definitive authorization failure.
Definitive(status) == status \in {401, 403}

\* What the token endpoint (or the API) answered, and err.response?.status
\* of the error axios raises for it: a network error carries no response, and
\* a 200 whose body lacks the token fields makes encrypt() throw a TypeError.
RefreshAnswers == {"ok", "malformed", "401", "403", "500", "network"}
ApiAnswers == {"ok", "401", "429", "500", "network"}
ErrStatus(ans) ==
  CASE ans = "401" -> 401
    [] ans = "403" -> 403
    [] ans = "429" -> 429
    [] ans = "500" -> 500
    [] OTHER -> NoStatus

\* fanvueApi.js:60: getValidToken's refresh was answered 500 and refreshToken
\* threw `Token refresh failed for account ${account.id}: Request failed
\* with status code 500`, a new Error without response, for an account whose
\* uuid holds the digits 401.
RefreshFailed500Id401 == "500:id401"

\* err.message?.includes('401') || err.message?.includes('403') on axios's
\* "Request failed with status code <status>" and on refreshToken's message.
MessageHasAuthCode(err) == err \in {"401", "403", RefreshFailed500Id401}

\* part_008:13-17: .eq('is_active', true).eq('needs_reconnect', false)
Eligible(a) == is_active[a] /\ ~needs_reconnect[a]

\* part_002:16-20: .eq('is_active', true).lt('token_expires_at', twoHoursFromNow)
JobSelects(a) == is_active[a] /\ token_expires_at[a] < nowMin + JobHorizonMin

\* The refresh token of the selected row, as posted.
Sent(st) == Decrypt(st.account.refresh_token_enc)

\* fanvueApi.js:26-35: refreshToken up to the POST.  decrypt of a cleared
\* column throws inside the try; the error has no response, so no status and
\* no 401/403 in its message, and every caller ends on it.
RefreshStart(t, st, origin) ==
  IF DecryptThrows(st.account.refresh_token_enc)
    THEN IdleTask
    ELSE [st EXCEPT !.pc = "posting", !.origin = origin, !.refreshes = @ + 1]

\* An error leaves fanvueRequest or refreshToken.  part_008:181-202: a
\* failure of the poll's getChats runs pollAccount's catch, which calls
\* refreshToken(account) when the message carries 401/403; part_008:159: a
\* message-sync failure is logged; the job's refresh ends with it.
ErrorPath(t, st, hasCode) ==
  IF Kind(t) = "poll" /\ st.stage = "chats" /\ st.origin # "catch" /\ hasCode
    THEN RefreshStart(t, [st EXCEPT !.answer = "none", !.token = 0], "catch")
    ELSE IdleTask

\* A getValidToken without the safety window: it refreshes expired tokens.
StartRequestNoWindow(t, st) ==
  IF st.account.token_expires_at - nowMin < 0
    THEN RefreshStart(t, st, "gvt")
    ELSE IF DecryptThrows(st.account.access_token_enc)
      THEN ErrorPath(t, [st EXCEPT !.origin = "none"], FALSE)
      ELSE [st EXCEPT !.pc = "api", !.origin = "none",
                      !.token = Decrypt(st.account.access_token_enc)]

\* fanvueApi.js:12-21 and 67-68: fanvueRequest starts with getValidToken on
\* the selected row.
StartRequest(t, st) ==
  IF st.account.token_expires_at - nowMin < SafetyWindowMin
    THEN RefreshStart(t, st, "gvt")
    ELSE IF DecryptThrows(st.account.access_token_enc)
      THEN ErrorPath(t, [st EXCEPT !.origin = "none"], FALSE)
      ELSE [st EXCEPT !.pc = "api", !.origin = "none",
                      !.token = Decrypt(st.account.access_token_enc)]

TokenInit ==
  /\ is_active = [a \in Accounts |-> TRUE]
  /\ needs_reconnect = [a \in Accounts |-> FALSE]
  /\ access_token_enc = [a \in Accounts |-> Encrypt(1)]
  /\ refresh_token_enc = [a \in Accounts |-> Encrypt(1)]
  /\ token_expires_at = [a \in Accounts |-> ExpiresInMin]
  /\ provCurrent = [a \in Accounts |-> 1]
  /\ provIssued = [a \in Accounts |-> 1]
  /\ nowMin = 0
  /\ task = [t \in Tasks |-> IdleTask]
  /\ lastAnswer = "none"

dbVars == <<is_active, needs_reconnect, access_token_enc, refresh_token_enc,
            token_expires_at>>
provVars == <<provCurrent, provIssued>>

\* part_008:10-24: a tick selects the eligible accounts and starts
\* pollAccount on each of them.
TickStart ==
  /\ UNCHANGED otherThanToken
  /\ \A t \in PollTasks : task[t].pc = "idle"
  /\ \E a \in Accounts : Eligible(a)
  /\ task' = [t \in Tasks |->
       IF t \in PollTasks /\ Eligible(Acct(t))
         THEN StartRequest(t, [IdleTask EXCEPT !.account = Row(Acct(t)),
                                               !.stage = "chats"])
         ELSE task[t]]
  /\ UNCHANGED <<dbVars, provVars, nowMin, lastAnswer>>

\* part_002:10-36: the hourly job selects the active accounts whose token
\* expires within two hours and calls refreshToken on each.
JobStart ==
  /\ UNCHANGED otherThanToken
  /\ \A t \in JobTasks : task[t].pc = "idle"
  /\ \E a \in Accounts : JobSelects(a)
  /\ task' = [t \in Tasks |->
       IF t \in JobTasks /\ JobSelects(Acct(t))
         THEN RefreshStart(t, [IdleTask EXCEPT !.account = Row(Acct(t))], "job")
         ELSE task[t]]
  /\ UNCHANGED <<dbVars, provVars, nowMin, lastAnswer>>

\* fanvueApi.js:30-37: the token endpoint accepts the refresh token and
\* rotates the pair.
RefreshAccepted(t) ==
  LET a == Acct(t) IN
  /\ UNCHANGED otherThanToken
  /\ task[t].pc = "posting"
  /\ Sent(task[t]) = provCurrent[a]
  /\ provIssued[a] < MaxIssued
  /\ provIssued' = [provIssued EXCEPT ![a] = @ + 1]
  /\ provCurrent' = [provCurrent EXCEPT ![a] = provIssued[a] + 1]
  /\ task' = [task EXCEPT ![t] =
       [@ EXCEPT !.pc = "persist", !.token = provIssued[a] + 1]]
  /\ lastAnswer' = "ok"
  /\ UNCHANGED <<dbVars, nowMin>>

\* fanvueApi.js:50-60: the POST fails, or its 200 body is unusable.  The
\* provider answers 401/403 to a refresh token it no longer accepts.
RefreshFails(t, ans) ==
  LET a == Acct(t)
      st == [task[t] EXCEPT !.answer = ans]
  IN
  /\ UNCHANGED otherThanToken
  /\ task[t].pc = "posting"
  /\ ans \in RefreshAnswers \ {"ok"}
  /\ ans \in {"401", "403"} => Sent(task[t]) # provCurrent[a]
  /\ task' = [task EXCEPT ![t] =
       IF Definitive(ErrStatus(ans))
         THEN [st EXCEPT !.pc = "deact"]
         ELSE ErrorPath(t, st, MessageHasAuthCode(ans))]
  /\ lastAnswer' = ans
  /\ UNCHANGED <<dbVars, provVars, nowMin>>

\* A refreshToken that stores the new access token and expiry and keeps the
\* old refresh token.
PersistTokensAccessOnly(t) ==
  LET a == Acct(t)
      st == task[t]
  IN
  /\ UNCHANGED otherThanToken
  /\ task[t].pc = "persist"
  /\ access_token_enc' = [access_token_enc EXCEPT ![a] = Encrypt(st.token)]
  /\ token_expires_at' = [token_expires_at EXCEPT ![a] = nowMin + ExpiresInMin]
  /\ task' = [task EXCEPT ![t] =
       IF st.origin = "gvt"
         THEN [st EXCEPT !.pc = "api"]
         ELSE IdleTask]
  /\ UNCHANGED <<is_active, needs_reconnect, refresh_token_enc, provVars,
                 nowMin, lastAnswer>>

\* fanvueApi.js:39-49: the new pair and expiry are stored and the access
\* token is returned; fanvueRequest goes on to the API call.
PersistTokens(t) ==
  LET a == Acct(t)
      st == task[t]
  IN
  /\ UNCHANGED otherThanToken
  /\ task[t].pc = "persist"
  /\ access_token_enc' = [access_token_enc EXCEPT ![a] = Encrypt(st.token)]
  /\ refresh_token_enc' = [refresh_token_enc EXCEPT ![a] = Encrypt(st.token)]
  /\ token_expires_at' = [token_expires_at EXCEPT ![a] = nowMin + ExpiresInMin]
  /\ task' = [task EXCEPT ![t] =
       IF st.origin = "gvt"
         THEN [st EXCEPT !.pc = "api"]
         ELSE IdleTask]
  /\ UNCHANGED <<is_active, needs_reconnect, provVars, nowMin, lastAnswer>>

\* fanvueApi.js:54-60: the account is deactivated and the error thrown,
\* "Token refresh failed ...: Request failed with status code 401".
DeactivateApplied(t) ==
  LET a == Acct(t)
      st == task[t]
  IN
  /\ UNCHANGED otherThanToken
  /\ task[t].pc = "deact"
  /\ is_active' = [is_active EXCEPT ![a] = FALSE]
  /\ needs_reconnect' = [needs_reconnect EXCEPT ![a] = TRUE]
  /\ task' = [task EXCEPT ![t] =
       ErrorPath(t, st, MessageHasAuthCode(st.answer))]
  /\ UNCHANGED <<access_token_enc, refresh_token_enc, token_expires_at,
                 provVars, nowMin, lastAnswer>>

\* fanvueApi.js:83-84: the API answers the call; it accepts the bearer
\* token of the provider's current pair only.  part_008:46-58 and 133-136:
\* after getChats the poll may fetch one thread's messages, again through
\* fanvueRequest on the row it selected.
ApiAnswer(t, ans, more) ==
  LET a == Acct(t)
      st == task[t]
  IN
  /\ UNCHANGED otherThanToken
  /\ st.pc = "api"
  /\ ans \in ApiAnswers
  /\ ans = "ok" => st.token = provCurrent[a]
  /\ ans = "401" => st.token # provCurrent[a]
  /\ more => ans = "ok" /\ st.stage = "chats"
  /\ task' = [task EXCEPT ![t] =
       IF ans = "ok"
         THEN IF more THEN StartRequest(t, [st EXCEPT !.stage = "msgs"])
                      ELSE IdleTask
         ELSE ErrorPath(t, st, MessageHasAuthCode(ans))]
  /\ UNCHANGED <<dbVars, provVars, nowMin, lastAnswer>>

\* oauth.js:114-160: a human reconnects; the callback stores the pair of the
\* authorization-code exchange and sets the flags.
OAuthCallback(a) ==
  /\ UNCHANGED otherThanToken
  /\ provIssued[a] < MaxIssued
  /\ provIssued' = [provIssued EXCEPT ![a] = @ + 1]
  /\ provCurrent' = [provCurrent EXCEPT ![a] = provIssued[a] + 1]
  /\ access_token_enc' = [access_token_enc EXCEPT ![a] = Encrypt(provIssued[a] + 1)]
  /\ refresh_token_enc' = [refresh_token_enc EXCEPT ![a] = Encrypt(provIssued[a] + 1)]
  /\ token_expires_at' = [token_expires_at EXCEPT ![a] = nowMin + ExpiresInMin]
  /\ is_active' = [is_active EXCEPT ![a] = TRUE]
  /\ needs_reconnect' = [needs_reconnect EXCEPT ![a] = FALSE]
  /\ UNCHANGED <<nowMin, task, lastAnswer>>

\* A disconnect that clears the tokens and leaves the flags alone.
DisconnectTokensOnly(a) ==
  /\ UNCHANGED otherThanToken
  /\ is_active[a]
  /\ access_token_enc' = [access_token_enc EXCEPT ![a] = NullEnc]
  /\ refresh_token_enc' = [refresh_token_enc EXCEPT ![a] = NullEnc]
  /\ UNCHANGED <<is_active, needs_reconnect, token_expires_at, provVars,
                 nowMin, task, lastAnswer>>

\* oauth.js:174-194: disconnect clears the tokens and sets the flags.
Disconnect(a) ==
  /\ UNCHANGED otherThanToken
  /\ is_active[a]
  /\ is_active' = [is_active EXCEPT ![a] = FALSE]
  /\ needs_reconnect' = [needs_reconnect EXCEPT ![a] = TRUE]
  /\ access_token_enc' = [access_token_enc EXCEPT ![a] = NullEnc]
  /\ refresh_token_enc' = [refresh_token_enc EXCEPT ![a] = NullEnc]
  /\ UNCHANGED <<token_expires_at, provVars, nowMin, task, lastAnswer>>

\* The provider stops accepting the account's pair (access revoked there).
ProviderRevokes(a) ==
  /\ UNCHANGED otherThanToken
  /\ provCurrent[a] # 0
  /\ provCurrent' = [provCurrent EXCEPT ![a] = 0]
  /\ UNCHANGED <<dbVars, provIssued, nowMin, task, lastAnswer>>

\* Time passes.
ClockAdvance(d) ==
  /\ UNCHANGED otherThanToken
  /\ nowMin + d <= MaxClockMin
  /\ nowMin' = nowMin + d
  /\ UNCHANGED <<dbVars, provVars, task, lastAnswer>>

TokenNext ==
  \/ TickStart
  \/ JobStart
  \/ \E t \in Tasks : RefreshAccepted(t)
  \/ \E t \in Tasks, ans \in RefreshAnswers : RefreshFails(t, ans)
  \/ \E t \in Tasks : PersistTokens(t)
  \/ \E t \in Tasks : DeactivateApplied(t)
  \/ \E t \in Tasks, ans \in ApiAnswers, more \in BOOLEAN : ApiAnswer(t, ans, more)
  \/ \E a \in Accounts : OAuthCallback(a)
  \/ \E a \in Accounts : Disconnect(a)
  \/ \E a \in Accounts : ProviderRevokes(a)
  \/ \E d \in ClockSteps : ClockAdvance(d)

\* The poller and the hourly job on an account that stays connected: no
\* reconnect, no disconnect, no revocation at the provider.
CycleNext ==
  \/ TickStart
  \/ JobStart
  \/ \E t \in Tasks : RefreshAccepted(t)
  \/ \E t \in Tasks, ans \in RefreshAnswers : RefreshFails(t, ans)
  \/ \E t \in Tasks : PersistTokens(t)
  \/ \E t \in Tasks : DeactivateApplied(t)
  \/ \E t \in Tasks, ans \in ApiAnswers, more \in BOOLEAN : ApiAnswer(t, ans, more)
  \/ \E d \in ClockSteps : ClockAdvance(d)

\* The token lifecycle with the clock standing still.
WindowNext ==
  \/ TickStart
  \/ JobStart
  \/ \E t \in Tasks : RefreshAccepted(t)
  \/ \E t \in Tasks, ans \in RefreshAnswers : RefreshFails(t, ans)
  \/ \E t \in Tasks : PersistTokens(t)
  \/ \E t \in Tasks : DeactivateApplied(t)
  \/ \E t \in Tasks, ans \in ApiAnswers, more \in BOOLEAN : ApiAnswer(t, ans, more)
  \/ \E a \in Accounts : OAuthCallback(a)
  \/ \E a \in Accounts : Disconnect(a)
  \/ \E a \in Accounts : ProviderRevokes(a)

(***************************************************************************)
(* Inbox cache: pollAccount, syncInbox, the message.received webhook and    *)
(* the send route, on one (account, fan) conversation key                   *)
(***************************************************************************)

\* Bounds of the cache model.
MaxThread == 3
MaxSends == 1

\* A null timestamp column, a null fanvue_message_id, an absent lastMessage.
NullTs == 0
NullId == 0
NoMsg == [uuid |-> NullId, sentAt |-> NullTs, fromFan |-> FALSE]
NoConv == [exists |-> FALSE, last_message_at |-> NullTs]
Unread == [exists |-> FALSE, last_message_at |-> 0 - 1]

\* Time, read off the thread: the platform stamps its i-th message 2i, and
\* a new Date() taken while the thread holds n messages gives 2n + 1, later
\* than every message so far and earlier than the next one.
SentAtOf(i) == 2 * i
Now(th) == 2 * Len(th) + 1

\* chat.lastMessage of the chat list entry.
LastMessage(th) == IF Len(th) = 0 THEN NoMsg ELSE th[Len(th)]

\* new Date(x).getTime(): an undefined sentAt gives an Invalid Date, which
\* compares false with everything; new Date(null || 0) is the epoch.
InvalidDate == 0 - 1
DateOfSentAt(msg) == IF msg = NoMsg THEN InvalidDate ELSE msg.sentAt
DateOfCached(ts) == IF ts = NullTs THEN 0 ELSE ts

\* Mutant of the tie-break: an equal timestamp counts as new.
IsNewOnTie(lastMsg, existingConv) ==
  \/ ~existingConv.exists
  \/ /\ DateOfSentAt(lastMsg) # InvalidDate
     /\ DateOfSentAt(lastMsg) >= DateOfCached(existingConv.last_message_at)

\* part_008:99-100: isNew
IsNew(lastMsg, existingConv) ==
  \/ ~existingConv.exists
  \/ /\ DateOfSentAt(lastMsg) # InvalidDate
     /\ DateOfSentAt(lastMsg) > DateOfCached(existingConv.last_message_at)

\* conversations.js:989-992: lastMessageAt of syncInbox.
SyncLastMessageAt(lastMsg, now) ==
  IF lastMsg = NoMsg THEN now ELSE lastMsg.sentAt

\* Rows of the messages table as the three writers build them.
PollRow(m) ==
  [id |-> <<"uuid", m>>, fanvue_message_id |-> m,
   direction |-> IF thread[m].fromFan THEN "inbound" ELSE "outbound",
   sent_at |-> thread[m].sentAt]
HookRow(m) ==
  [id |-> <<"gen", "hook", m>>, fanvue_message_id |-> m,
   direction |-> "inbound", sent_at |-> thread[m].sentAt]
SendRow(n, fmid, now) ==
  [id |-> <<"gen", "send", n>>, fanvue_message_id |-> fmid,
   direction |-> "outbound", sent_at |-> now]

RowsOf(rows, fmid) == {r \in rows : r.fanvue_message_id = fmid}

\* Mutant of the upsert: no conflict target, the row is always added.
UpsertNoConflictTarget(rows, row, ignoreDuplicates) == rows \cup {row}

\* upsert(row, { onConflict: 'fanvue_message_id', ignoreDuplicates }) on the
\* UNIQUE column of schema_v2.sql:106: insert, or DO NOTHING / DO UPDATE of
\* the row that holds the key.
Upsert(rows, row, ignoreDuplicates) ==
  IF RowsOf(rows, row.fanvue_message_id) = {}
    THEN rows \cup {row}
    ELSE IF ignoreDuplicates
      THEN rows
      ELSE (rows \ RowsOf(rows, row.fanvue_message_id)) \cup {row}

\* part_008:139-157: the batch upsert of the first n messages of the thread.
RECURSIVE UpsertAll(_, _)
UpsertAll(rows, n) ==
  IF n = 0 THEN rows ELSE Upsert(UpsertAll(rows, n - 1), PollRow(n), FALSE)

IdlePoll == [pc |-> "idle", lastMsg |-> NoMsg, existingConv |-> Unread, msgs |-> 0]
\* res: the status the route has answered its caller with (0: none yet).
IdleSync == [pc |-> "idle", lastMessageAt |-> NullTs, res |-> 0]
IdleHook == [pc |-> "idle", data |-> NullId]
IdleSend == [pc |-> "idle", fanvueMessageId |-> NullId, res |-> 0]

CacheInit ==
  /\ thread = <<>>
  /\ conversation = NoConv
  /\ messages = {}
  /\ sends = 0
  /\ pollSt = IdlePoll
  /\ syncSt = IdleSync
  /\ hookSt = IdleHook
  /\ sendSt = IdleSend
  /\ seen = 0

\* The fan writes a message on the platform.
FanSends ==
  /\ UNCHANGED otherThanCache
  /\ Len(thread) < MaxThread
  /\ thread' = Append(thread, [uuid |-> Len(thread) + 1, sentAt |-> SentAtOf(Len(thread) + 1),
                               fromFan |-> TRUE])
  /\ UNCHANGED <<conversation, messages, sends, pollSt, syncSt, hookSt, sendSt, seen>>

\* part_008:46 and 60-88: the tick's pollAccount gets the chat list and
\* takes the fan's entry (the fans upsert is not part of the model).
PollGetChats ==
  /\ UNCHANGED otherThanCache
  /\ pollSt.pc = "idle"
  /\ pollSt' = [IdlePoll EXCEPT !.pc = "read", !.lastMsg = LastMessage(thread)]
  /\ seen' = Max(seen, Len(thread))
  /\ UNCHANGED <<thread, conversation, messages, sends, syncSt, hookSt, sendSt>>

\* part_008:91-102: existingConv is read and isNew decided.
PollReadExisting ==
  /\ UNCHANGED otherThanCache
  /\ pollSt.pc = "read"
  /\ pollSt' = [pollSt EXCEPT
       !.existingConv = conversation,
       !.pc = IF IsNew(pollSt.lastMsg, conversation) THEN "upsertConv" ELSE "skip"]
  /\ UNCHANGED <<thread, conversation, messages, sends, syncSt, hookSt, sendSt, seen>>

\* part_008:109-123: the conversation row is upserted with the entry's
\* lastMsg?.sentAt || null.
PollUpsertConversation ==
  /\ UNCHANGED otherThanCache
  /\ pollSt.pc = "upsertConv"
  /\ conversation' = [exists |-> TRUE, last_message_at |-> pollSt.lastMsg.sentAt]
  /\ pollSt' = [pollSt EXCEPT !.pc = "fetch"]
  /\ UNCHANGED <<thread, messages, sends, syncSt, hookSt, sendSt, seen>>

\* part_008:133-136 and 158-160: the thread's messages are fetched; a
\* failure is logged and ends the entry.
PollGetChatMessages(ok) ==
  /\ UNCHANGED otherThanCache
  /\ pollSt.pc = "fetch"
  /\ pollSt' = [pollSt EXCEPT
       !.msgs = IF ok THEN Len(thread) ELSE 0,
       !.pc = IF ok /\ Len(thread) > 0 THEN "upsertMsgs" ELSE "done"]
  /\ UNCHANGED <<thread, conversation, messages, sends, syncSt, hookSt, sendSt, seen>>

\* part_008:137-157: the fetched messages are upserted in one statement.
PollUpsertMessages ==
  /\ UNCHANGED otherThanCache
  /\ pollSt.pc = "upsertMsgs"
  /\ messages' = UpsertAll(messages, pollSt.msgs)
  /\ pollSt' = [pollSt EXCEPT !.pc = "done"]
  /\ UNCHANGED <<thread, conversation, sends, syncSt, hookSt, sendSt, seen>>

\* part_008:166-179: the cycle ends (sync state idle).
PollFinish ==
  /\ UNCHANGED otherThanCache
  /\ pollSt.pc \in {"skip", "done"}
  /\ pollSt' = IdlePoll
  /\ UNCHANGED <<thread, conversation, messages, sends, syncSt, hookSt, sendSt, seen>>

\* conversations.js:947-949 and 969-992: the sync-now route calls syncInbox
\* without awaiting it and answers 200 'Sync initiated'; syncInbox gets the
\* chat list and computes lastMessageAt of the fan's entry.
SyncGetChats ==
  /\ UNCHANGED otherThanCache
  /\ syncSt.pc = "idle"
  /\ syncSt' = [pc |-> "upsertConv",
                lastMessageAt |-> SyncLastMessageAt(LastMessage(thread), Now(thread)),
                res |-> 200]
  /\ seen' = Max(seen, Len(thread))
  /\ UNCHANGED <<thread, conversation, messages, sends, pollSt, hookSt, sendSt>>

\* conversations.js:1012-1026: the conversation row is upserted.
SyncUpsertConversation ==
  /\ UNCHANGED otherThanCache
  /\ syncSt.pc = "upsertConv"
  /\ conversation' = [exists |-> TRUE, last_message_at |-> syncSt.lastMessageAt]
  /\ syncSt' = IdleSync
  /\ UNCHANGED <<thread, messages, sends, pollSt, hookSt, sendSt, seen>>

\* conversations.js:947-949 and 969: the route has answered 200 and
\* syncInbox's getChats throws.
SyncGetChatsFails ==
  /\ UNCHANGED otherThanCache
  /\ syncSt.pc = "idle"
  /\ syncSt' = [pc |-> "failed", lastMessageAt |-> NullTs, res |-> 200]
  /\ UNCHANGED <<thread, conversation, messages, sends, pollSt, hookSt,
                 sendSt, seen>>

\* conversations.js:1038-1048 and 947: syncInbox's catch records the error
\* and rethrows into the route's .catch, which logs it.
SyncErrorLogged ==
  /\ UNCHANGED otherThanCache
  /\ syncSt.pc = "failed"
  /\ syncSt' = IdleSync
  /\ UNCHANGED <<thread, conversation, messages, sends, pollSt, hookSt,
                 sendSt, seen>>

\* part_003:57-67: a message.received event of one of the fan's messages
\* arrives (late, or again) and its conversation is found; without a
\* conversation row the handler stops.
HookFindsConversation(m) ==
  /\ UNCHANGED otherThanCache
  /\ hookSt.pc = "idle"
  /\ m \in 1..Len(thread)
  /\ thread[m].fromFan
  /\ conversation.exists
  /\ hookSt' = [pc |-> "msg", data |-> m]
  /\ seen' = Max(seen, m)
  /\ UNCHANGED <<thread, conversation, messages, sends, pollSt, syncSt, sendSt>>

\* part_003:69-78: the message is upserted, ignoring duplicates.
HookUpsertMessage ==
  /\ UNCHANGED otherThanCache
  /\ hookSt.pc = "msg"
  /\ messages' = Upsert(messages, HookRow(hookSt.data), TRUE)
  /\ hookSt' = [hookSt EXCEPT !.pc = "conv"]
  /\ UNCHANGED <<thread, conversation, sends, pollSt, syncSt, sendSt, seen>>

\* part_003:80-87: the conversation row is updated with data.sentAt.
HookUpdateConversation ==
  /\ UNCHANGED otherThanCache
  /\ hookSt.pc = "conv"
  /\ conversation' = [conversation EXCEPT
       !.last_message_at = thread[hookSt.data].sentAt]
  /\ hookSt' = IdleHook
  /\ UNCHANGED <<thread, messages, sends, pollSt, syncSt, sendSt, seen>>

\* conversations.js:864-890: the send route finds the conversation and
\* calls the platform; a failed call is logged and leaves no message id.
SendCall(ok) ==
  /\ UNCHANGED otherThanCache
  /\ sendSt.pc = "idle"
  /\ conversation.exists
  /\ sends < MaxSends
  /\ ok => Len(thread) < MaxThread
  /\ thread' = IF ok
       THEN Append(thread, [uuid |-> Len(thread) + 1, sentAt |-> SentAtOf(Len(thread) + 1),
                            fromFan |-> FALSE])
       ELSE thread
  /\ sendSt' = [pc |-> "insert",
                fanvueMessageId |-> IF ok THEN Len(thread) + 1 ELSE NullId,
                res |-> 0]
  /\ UNCHANGED <<conversation, messages, sends, pollSt, syncSt, hookSt, seen>>

\* conversations.js:892-913: the message row is inserted under a fresh id;
\* a row that already holds the fanvue_message_id makes the insert fail and
\* the route ends with next(err), a 500.
SendInsertMessage ==
  /\ UNCHANGED otherThanCache
  /\ sendSt.pc = "insert"
  /\ IF sendSt.fanvueMessageId # NullId
          /\ RowsOf(messages, sendSt.fanvueMessageId) # {}
       THEN /\ sendSt' = [sendSt EXCEPT !.pc = "idle", !.res = 500]
            /\ UNCHANGED messages
       ELSE /\ messages' = messages \cup
                 {SendRow(sends + 1, sendSt.fanvueMessageId, Now(thread))}
            /\ sendSt' = [sendSt EXCEPT !.pc = "conv"]
  /\ sends' = sends + 1
  /\ UNCHANGED <<thread, conversation, pollSt, syncSt, hookSt, seen>>

\* conversations.js:915-927: last_message_at becomes the local time and the
\* route answers 201 with the message row.
SendUpdateConversation ==
  /\ UNCHANGED otherThanCache
  /\ sendSt.pc = "conv"
  /\ conversation' = [conversation EXCEPT !.last_message_at = Now(thread)]
  /\ sendSt' = [sendSt EXCEPT !.pc = "idle", !.res = 201]
  /\ UNCHANGED <<thread, messages, sends, pollSt, syncSt, hookSt, seen>>

InboxNext ==
  \/ FanSends
  \/ PollGetChats
  \/ PollReadExisting
  \/ PollUpsertConversation
  \/ \E ok \in BOOLEAN : PollGetChatMessages(ok)
  \/ PollUpsertMessages
  \/ PollFinish
  \/ SyncGetChats
  \/ SyncUpsertConversation
  \/ \E m \in 1..MaxThread : HookFindsConversation(m)
  \/ HookUpsertMessage
  \/ HookUpdateConversation

CacheNext ==
  \/ InboxNext
  \/ \E ok \in BOOLEAN : SendCall(ok)
  \/ SendInsertMessage
  \/ SendUpdateConversation

\* The timer's polls of one conversation, cycle after cycle.
ConvergeNext ==
  \/ FanSends
  \/ PollGetChats
  \/ PollReadExisting
  \/ PollUpsertConversation
  \/ \E ok \in BOOLEAN : PollGetChatMessages(ok)
  \/ PollUpsertMessages
  \/ PollFinish

\* The two request paths a user triggers, sync-now and send, against a
\* remote that may fail.
RoutesNext ==
  \/ FanSends
  \/ SyncGetChats
  \/ SyncGetChatsFails
  \/ SyncUpsertConversation
  \/ SyncErrorLogged
  \/ \E ok \in BOOLEAN : SendCall(ok)
  \/ SendInsertMessage
  \/ SendUpdateConversation

\* The reconcilers with every webhook event delivered while its message is
\* the thread's last one: no late or repeated delivery.
RaceNext ==
  \/ FanSends
  \/ PollGetChats
  \/ PollReadExisting
  \/ PollUpsertConversation
  \/ \E ok \in BOOLEAN : PollGetChatMessages(ok)
  \/ PollUpsertMessages
  \/ PollFinish
  \/ SyncGetChats
  \/ SyncUpsertConversation
  \/ HookFindsConversation(Len(thread))
  \/ HookUpsertMessage
  \/ HookUpdateConversation

(***************************************************************************)
(* Chunked range fetch: buildChunks, fetchEarningsChunk, fetchEarnings and  *)
(* fetchSubscribers (routes/analytics.js)                                   *)
(***************************************************************************)

\* Bound of the range inputs: dates are the days 0..MaxDay.
MaxDay == 90
Days == 0..MaxDay

\* chunkDays = 28; one day of Date.getTime(), counted in seconds (the code
\* counts 86400000 ms).
ChunkDays == 28
DayTicks == 86400

Min(a, b) == IF a <= b THEN a ELSE b

\* new Date('YYYY-MM-DD').getTime() and toDateStr(new Date(t)).
GetTime(d) == d * DayTicks
ToDateStr(t) == t \div DayTicks

\* Mutant of the window end: not clamped to the end of the range.
NextCutUnclamped(cur, end, step) == cur + step

\* part_004:92: const next = Math.min(cur + step, end)
NextCut(cur, end, step) == Min(cur + step, end)

\* part_004:91-95: the while loop of buildChunks.
RECURSIVE ChunkLoop(_, _, _)
ChunkLoop(cur, end, step) ==
  IF cur < end
    THEN <<[startDate |-> ToDateStr(cur),
            endDate |-> ToDateStr(NextCut(cur, end, step))]>>
           \o ChunkLoop(NextCut(cur, end, step), end, step)
    ELSE <<>>

\* Mutant of buildChunks: no single window for a reversed or empty range
\* (the loop alone, as in the first version of the route).
BuildChunksLoopOnly(sd, ed, chunkDays) ==
  ChunkLoop(GetTime(sd), GetTime(ed), chunkDays * DayTicks)

\* part_004:79-97: buildChunks.
BuildChunks(sd, ed, chunkDays) ==
  IF GetTime(sd) >= GetTime(ed)
    THEN <<[startDate |-> sd, endDate |-> ed]>>
    ELSE ChunkLoop(GetTime(sd), GetTime(ed), chunkDays * DayTicks)

\* No fetch is running.
FetchIdle ==
  /\ startDate = 0
  /\ endDate = 0
  /\ fetchKind = "earnings"
  /\ cursorLimit = 0
  /\ chunks = <<>>
  /\ fpc = "idle"
  /\ batchAt = 0
  /\ win = <<>>
  /\ allData = <<>>

\* A window's fetch before its batch starts.
WaitingWindow == [pc |-> "waiting", cursor |-> 0, pages |-> 0, requests |-> 0,
                  data |-> <<>>]

\* part_004:136 and 151: the fetch is called and builds its windows.
CallBuildChunks ==
  /\ UNCHANGED otherThanFetch
  /\ fpc = "called"
  /\ chunks' = BuildChunks(startDate, endDate, ChunkDays)
  /\ win' = [w \in 1..Len(BuildChunks(startDate, endDate, ChunkDays)) |-> WaitingWindow]
  /\ fpc' = "loop"
  /\ UNCHANGED <<startDate, endDate, fetchKind, cursorLimit, batchAt, allData>>

\* CHUNK_CONCURRENCY and the page cap of fetchEarningsChunk.
ChunkConcurrency == 3
PageCap == 20

\* Bound of the remote's paging in the batch model: it hands out a
\* nextCursor on at most this many pages of a window.
MaxCursorPages == 2

\* r.nextCursor || null
NoCursor == 0

\* Mutant of the batch: every remaining window is started at once.
BatchOfAllRemaining(i, n) == {w \in 1..n : i < w}

\* part_004:139 and 154: chunks.slice(i, i + CHUNK_CONCURRENCY), as 1-based
\* window numbers.
BatchOf(i, n) == {w \in 1..n : i < w /\ w <= i + ChunkConcurrency}

\* Mutant of the paging loop: the page count is not looked at.
ContinuePagingUncapped(cursor, pages) == cursor # NoCursor

\* part_004:125: while (cursor && ++pages < 20), pages already incremented.
ContinuePaging(cursor, pages) == cursor # NoCursor /\ pages < PageCap

\* The items of one response page: page k of window w.
PageData(w, k) == <<<<w, k>>>>

\* results.forEach(d => allData.push(...d)) over the windows of a batch.
RECURSIVE ConcatData(_, _, _)
ConcatData(wn, from, to) ==
  IF from > to THEN <<>> ELSE wn[from].data \o ConcatData(wn, from + 1, to)

\* part_004:138-140 and 153-155: the next batch is sliced and every window
\* of it starts its fetch, sending its first request.
BatchStart ==
  /\ UNCHANGED otherThanFetch
  /\ fpc = "loop"
  /\ batchAt < Len(chunks)
  /\ win' = [w \in 1..Len(chunks) |->
       IF w \in BatchOf(batchAt, Len(chunks))
         THEN [win[w] EXCEPT !.pc = "requesting", !.requests = 1]
         ELSE win[w]]
  /\ fpc' = "batch"
  /\ UNCHANGED <<startDate, endDate, fetchKind, cursorLimit, chunks, batchAt, allData>>

\* part_004:113-125 and 157-161: a request (withRetry around the API call)
\* returns a page, with or without a nextCursor.  fetchEarningsChunk goes on
\* to the next page while the loop test holds; the subscribers callback
\* returns the page.
PageReturned(w, more) ==
  LET st == win[w]
      cursor == IF more THEN st.requests ELSE NoCursor
      pages == IF cursor # NoCursor THEN st.pages + 1 ELSE st.pages
      data == st.data \o PageData(w, st.requests)
  IN
  /\ UNCHANGED otherThanFetch
  /\ fpc = "batch"
  /\ w \in DOMAIN win
  /\ st.pc = "requesting"
  /\ more => st.requests <= cursorLimit
  /\ win' = [win EXCEPT ![w] =
       IF fetchKind = "earnings" /\ ContinuePaging(cursor, pages)
         THEN [pc |-> "requesting", cursor |-> cursor, pages |-> pages,
               requests |-> st.requests + 1, data |-> data]
         ELSE [pc |-> "finished", cursor |-> cursor,
               pages |-> IF fetchKind = "earnings" THEN pages ELSE st.pages,
               requests |-> st.requests, data |-> data]]
  /\ UNCHANGED <<startDate, endDate, fetchKind, cursorLimit, chunks, fpc, batchAt, allData>>

\* part_004:121-124 and 162-165: the request throws (withRetry gave up);
\* fetchEarningsChunk breaks and returns the pages it has, the subscribers
\* callback returns [].
PageFailed(w) ==
  /\ UNCHANGED otherThanFetch
  /\ fpc = "batch"
  /\ w \in DOMAIN win
  /\ win[w].pc = "requesting"
  /\ win' = [win EXCEPT ![w] =
       [@ EXCEPT !.pc = "failed",
                 !.data = IF fetchKind = "earnings" THEN @ ELSE <<>>]]
  /\ UNCHANGED <<startDate, endDate, fetchKind, cursorLimit, chunks, fpc, batchAt, allData>>

\* part_004:140-141 and 155-167: Promise.all resolves when every window of
\* the batch has returned; the results are appended in window order.
BatchDone ==
  /\ UNCHANGED otherThanFetch
  /\ fpc = "batch"
  /\ \A w \in BatchOf(batchAt, Len(chunks)) : win[w].pc \in {"finished", "failed"}
  /\ allData' = allData \o
       ConcatData(win, batchAt + 1, Min(batchAt + ChunkConcurrency, Len(chunks)))
  /\ batchAt' = batchAt + ChunkConcurrency
  /\ fpc' = "loop"
  /\ UNCHANGED <<startDate, endDate, fetchKind, cursorLimit, chunks, win>>

\* part_004:143 and 169: return allData.
FetchReturns ==
  /\ UNCHANGED otherThanFetch
  /\ fpc = "loop"
  /\ batchAt >= Len(chunks)
  /\ fpc' = "returned"
  /\ UNCHANGED <<startDate, endDate, fetchKind, cursorLimit, chunks, batchAt, win, allData>>

ChunksNext == CallBuildChunks

FetchNext ==
  \/ CallBuildChunks
  \/ BatchStart
  \/ \E w \in 1..(MaxDay \div ChunkDays + 1), more \in BOOLEAN : PageReturned(w, more)
  \/ \E w \in 1..(MaxDay \div ChunkDays + 1) : PageFailed(w)
  \/ BatchDone
  \/ FetchReturns

(***************************************************************************)
(* The poller: the cron tick and pollAccount's inbox_sync_state writes     *)
(* (part_008)                                                              *)
(***************************************************************************)

\* The accounts the tick's select can return, and the executions of
\* pollAccount that overlap on one account when a tick overruns the minute.
MaxAccounts == 6
MaxRuns == 2
SyncAccounts == 1..MaxAccounts

\* part_008:21: chunkArray(accounts, 5)
BatchSize == 5

\* schema_v2.sql:248-255: a row of inbox_sync_state (updated_at left out);
\* no row before the first upsert, and NULL columns.
NullMsg == "null"
NoSyncRow == [sync_status |-> "absent", error_message |-> NullMsg,
              last_synced_at |-> NullTs]

\* new Date() at a write of execution e, and of a cycle that ran before.
PriorTime == 1
WriteTime(e) == e + PriorTime

\* part_008:36-42: upsert { account_id, sync_status: 'syncing', updated_at }
\* inserts the row with the column defaults or updates the given columns.
SyncingRow(row) ==
  IF row = NoSyncRow
    THEN [sync_status |-> "syncing", error_message |-> NullMsg,
          last_synced_at |-> NullTs]
    ELSE [row EXCEPT !.sync_status = "syncing"]

\* part_008:167-175 (and 48-56): status idle, error cleared, last_synced_at.
IdleRow(row, now) ==
  [sync_status |-> "idle", error_message |-> NullMsg, last_synced_at |-> now]

\* part_008:184-191: upsert { account_id, sync_status: 'error',
\* error_message: err.message, updated_at }
ErrorRow(row, msg) ==
  IF row = NoSyncRow
    THEN [sync_status |-> "error", error_message |-> msg,
          last_synced_at |-> NullTs]
    ELSE [row EXCEPT !.sync_status = "error", !.error_message = msg]

\* An empty chat list that returns without touching the row.
EmptyListRowUntouched(row, now) == row

\* part_008:47-58: an empty chat list writes idle before returning.
EmptyListRow(row, now) == IdleRow(row, now)

\* What getChats (or the processing of a chat) throws at pollAccount, named
\* by the status in err.message.
PollFailures == {"401", "500"}

RECURSIVE ChunkWhole(_, _, _)
ChunkWhole(arr, i, size) ==
  IF i + size > Len(arr)
    THEN <<>>
    ELSE <<SubSeq(arr, i + 1, i + size)>> \o ChunkWhole(arr, i + size, size)

\* A chunkArray that drops a last chunk shorter than size.
ChunkArrayWholeOnly(arr, size) == ChunkWhole(arr, 0, size)

\* A chunkArray that hands back the whole list as one chunk.
ChunkArrayOneChunk(arr, size) == IF Len(arr) = 0 THEN <<>> ELSE <<arr>>

\* part_008:208-210: for (i = 0; i < arr.length; i += size)
\*                     chunks.push(arr.slice(i, i + size))
RECURSIVE ChunkFrom(_, _, _)
ChunkFrom(arr, i, size) ==
  IF i >= Len(arr)
    THEN <<>>
    ELSE <<SubSeq(arr, i + 1, Min(i + size, Len(arr)))>>
           \o ChunkFrom(arr, i + size, size)

\* part_008:206-212
ChunkArray(arr, size) == ChunkFrom(arr, 0, size)

Members(seq) == {seq[i] : i \in 1..Len(seq)}

\* The cron callback between two firings.
IdleTick == [pc |-> "idle", accounts |-> <<>>, chunks |-> <<>>, at |-> 0]

\* A pollAccount(account) not yet called, and its promise once called.
WaitingRun(a) == [pc |-> "waiting", account |-> a, err |-> "none",
                  wrote |-> <<>>, calls |-> 0]
CalledRun(a) == [WaitingRun(a) EXCEPT !.pc = "called", !.calls = 1]

\* No tick is running and nothing was ever synced.
PollerIdle ==
  /\ tick = IdleTick
  /\ runs = <<>>
  /\ sync_state = [a \in SyncAccounts |-> NoSyncRow]
  /\ flagged = [a \in SyncAccounts |-> FALSE]

\* part_008:13-21: the select returns n eligible accounts (none, or an
\* error with data null, returns at once); the list is cut into chunks.
TickSelect(n) ==
  /\ UNCHANGED otherThanPoller
  /\ tick.pc = "fired"
  /\ LET accounts == [i \in 1..n |-> i]
     IN  IF n = 0
           THEN /\ tick' = [tick EXCEPT !.pc = "returned"]
                /\ UNCHANGED runs
           ELSE /\ tick' = [pc |-> "loop", accounts |-> accounts,
                            chunks |-> ChunkArray(accounts, BatchSize),
                            at |-> 1]
                /\ runs' = [i \in 1..n |-> WaitingRun(accounts[i])]
  /\ UNCHANGED <<sync_state, flagged>>

\* part_008:22-23: chunk.map(account => pollAccount(account))
TickBatchStart ==
  /\ UNCHANGED otherThanPoller
  /\ tick.pc = "loop"
  /\ tick.at <= Len(tick.chunks)
  /\ runs' = [e \in DOMAIN runs |->
                IF runs[e].account \in Members(tick.chunks[tick.at])
                  THEN [runs[e] EXCEPT !.pc = "called", !.calls = @ + 1]
                  ELSE runs[e]]
  /\ tick' = [tick EXCEPT !.pc = "awaiting"]
  /\ UNCHANGED <<sync_state, flagged>>

\* part_008:23: await Promise.allSettled(...) resumes when every promise of
\* the chunk has settled.
TickBatchSettled ==
  /\ UNCHANGED otherThanPoller
  /\ tick.pc = "awaiting"
  /\ \A e \in DOMAIN runs :
       runs[e].account \in Members(tick.chunks[tick.at])
         => runs[e].pc = "fulfilled"
  /\ tick' = [tick EXCEPT !.pc = "loop", !.at = @ + 1]
  /\ UNCHANGED <<runs, sync_state, flagged>>

\* part_008:22-24: the for-of loop is over and the callback returns.
TickReturns ==
  /\ UNCHANGED otherThanPoller
  /\ tick.pc = "loop"
  /\ tick.at > Len(tick.chunks)
  /\ tick' = [tick EXCEPT !.pc = "returned"]
  /\ UNCHANGED <<runs, sync_state, flagged>>

\* part_008:35-46: the 'syncing' upsert, then getChats is issued.
MarkSyncing(e) ==
  /\ UNCHANGED otherThanPoller
  /\ runs[e].pc = "called"
  /\ sync_state' = [sync_state EXCEPT
                      ![runs[e].account] = SyncingRow(@)]
  /\ runs' = [runs EXCEPT ![e].pc = "marked",
                          ![e].wrote = Append(@, "syncing")]
  /\ UNCHANGED <<tick, flagged>>

\* part_008:47-58: getChats returns no chat.
GetChatsEmpty(e) ==
  /\ UNCHANGED otherThanPoller
  /\ runs[e].pc = "marked"
  /\ sync_state' = [sync_state EXCEPT
                      ![runs[e].account] = EmptyListRow(@, WriteTime(e))]
  /\ runs' = [runs EXCEPT
                ![e].pc = "fulfilled",
                ![e].wrote =
                  Append(@, sync_state'[runs[e].account].sync_status)]
  /\ UNCHANGED <<tick, flagged>>

\* part_008:46 and 60-164: getChats returns chats and they are processed.
GetChatsReturns(e) ==
  /\ UNCHANGED otherThanPoller
  /\ runs[e].pc = "marked"
  /\ runs' = [runs EXCEPT ![e].pc = "chats"]
  /\ UNCHANGED <<tick, sync_state, flagged>>

\* part_008:46 and 181: getChats throws and the catch takes the error.
GetChatsThrows(e, ans) ==
  /\ UNCHANGED otherThanPoller
  /\ runs[e].pc = "marked"
  /\ runs' = [runs EXCEPT ![e].pc = "caught", ![e].err = ans]
  /\ UNCHANGED <<tick, sync_state, flagged>>

\* part_008:60-131 and 181: a step of the chat loop outside the inner try
\* throws (a failed fan or conversation write leaves data null).
ProcessingThrows(e) ==
  /\ UNCHANGED otherThanPoller
  /\ runs[e].pc = "chats"
  /\ runs' = [runs EXCEPT ![e].pc = "caught", ![e].err = "500"]
  /\ UNCHANGED <<tick, sync_state, flagged>>

\* part_008:166-179: the final upsert, then the function returns.
FinishIdle(e) ==
  /\ UNCHANGED otherThanPoller
  /\ runs[e].pc = "chats"
  /\ sync_state' = [sync_state EXCEPT
                      ![runs[e].account] = IdleRow(@, WriteTime(e))]
  /\ runs' = [runs EXCEPT ![e].pc = "fulfilled",
                          ![e].wrote = Append(@, "idle")]
  /\ UNCHANGED <<tick, flagged>>

\* part_008:181-194: the catch writes 'error' with err.message and, on a
\* message holding 401 or 403, goes on to refreshToken.
CatchWritesError(e) ==
  /\ UNCHANGED otherThanPoller
  /\ runs[e].pc = "caught"
  /\ sync_state' = [sync_state EXCEPT
                      ![runs[e].account] = ErrorRow(@, runs[e].err)]
  /\ runs' = [runs EXCEPT
                ![e].pc = IF MessageHasAuthCode(runs[e].err)
                            THEN "refreshing" ELSE "fulfilled",
                ![e].wrote = Append(@, "error")]
  /\ UNCHANGED <<tick, flagged>>

\* part_008:195-201 with fanvueApi.js:50-61: refreshToken resolves, or
\* throws into the inner catch after flagging the account on a definitive
\* answer; either way pollAccount returns.
RefreshSettles(e, ans) ==
  /\ UNCHANGED otherThanPoller
  /\ runs[e].pc = "refreshing"
  /\ flagged' = [flagged EXCEPT
                   ![runs[e].account] = @ \/ Definitive(ErrStatus(ans))]
  /\ runs' = [runs EXCEPT ![e].pc = "fulfilled"]
  /\ UNCHANGED <<tick, sync_state>>

PollNext ==
  \E e \in DOMAIN runs :
    \/ MarkSyncing(e)
    \/ GetChatsEmpty(e)
    \/ GetChatsReturns(e)
    \/ \E ans \in PollFailures : GetChatsThrows(e, ans)
    \/ ProcessingThrows(e)
    \/ FinishIdle(e)
    \/ CatchWritesError(e)
    \/ \E ans \in {"ok", "401", "500"} : RefreshSettles(e, ans)

\* pollAccount on an account whose uuid holds the digits 401: part_008:46
\* with fanvueApi.js:68, getChats starts with getValidToken, whose refresh
\* may fail.
TextNext ==
  \E e \in DOMAIN runs :
    \/ MarkSyncing(e)
    \/ GetChatsEmpty(e)
    \/ GetChatsReturns(e)
    \/ \E ans \in PollFailures \cup {RefreshFailed500Id401} : GetChatsThrows(e, ans)
    \/ ProcessingThrows(e)
    \/ FinishIdle(e)
    \/ CatchWritesError(e)
    \/ \E ans \in {"ok", "401", "500"} : RefreshSettles(e, ans)

\* part_008:11-23: cron fires the callback every minute, whether or not an
\* earlier callback has returned; the callback selects the account, which
\* is eligible, and calls pollAccount on it.
CronFires(a) ==
  /\ UNCHANGED otherThanPoller
  /\ Len(runs) < MaxRuns
  /\ ~flagged[a]
  /\ runs' = Append(runs, CalledRun(a))
  /\ UNCHANGED <<tick, sync_state, flagged>>

\* The ticks of several minutes on one account.
OverlapNext ==
  \/ CronFires(1)
  \/ PollNext

\* pollAccount against a remote that also answers 429 or not at all:
\* part_008:46 with fanvueApi.js:246-250 and 83, getChats is fanvueRequest's
\* bare axios call, whose rejection is what pollAccount's catch receives.
LimitNext ==
  \E e \in DOMAIN runs :
    \/ MarkSyncing(e)
    \/ GetChatsEmpty(e)
    \/ GetChatsReturns(e)
    \/ \E ans \in ApiAnswers \ {"ok"} : GetChatsThrows(e, ans)
    \/ ProcessingThrows(e)
    \/ FinishIdle(e)
    \/ CatchWritesError(e)
    \/ \E ans \in {"ok", "401", "500"} : RefreshSettles(e, ans)

TickNext ==
  \/ \E n \in 0..MaxAccounts : TickSelect(n)
  \/ TickBatchStart
  \/ TickBatchSettled
  \/ TickReturns
  \/ PollNext

(***************************************************************************)
(* The outbound send queue of the client (msgQueue, processQueue())        *)
(***************************************************************************)

MaxItems == 3
MaxPushes == 4

Ids == 1..MaxItems

\* An item of the visible list: state "none" before its submission, then
\* queued | sending | sent | failed, "discarded" once the user removed it;
\* order is its arrival number in msgQueue.
NoItem == [state |-> "none", order |-> 0]

Sending == {i \in Ids : item[i].state = "sending"}

QueueIdle ==
  /\ msgQueue = <<>>
  /\ item = [i \in Ids |-> NoItem]
  /\ processing = FALSE
  /\ pushes = 0
  /\ sentLog = <<>>

\* The user submits a message: it is appended to the queue, shown at once
\* as queued, and the loop is started unless it is running.
Submit(i) ==
  /\ UNCHANGED otherThanQueue
  /\ pushes < MaxPushes
  /\ item[i].state = "none"
  /\ \A j \in Ids : j < i => item[j].state # "none"
  /\ msgQueue' = Append(msgQueue, i)
  /\ item' = [item EXCEPT ![i] = [state |-> "queued", order |-> pushes + 1]]
  /\ pushes' = pushes + 1
  /\ processing' = TRUE
  /\ UNCHANGED sentLog

\* A processQueue() loop that takes the next item whether or not the call
\* of the previous one has settled.
ProcessQueueTakesUnawaited ==
  /\ UNCHANGED otherThanQueue
  /\ processing
  /\ msgQueue # <<>>
  /\ msgQueue' = Tail(msgQueue)
  /\ item' = [item EXCEPT ![Head(msgQueue)].state = "sending"]
  /\ UNCHANGED <<processing, pushes, sentLog>>

\* processQueue(): with no call in flight, the loop takes the head of the
\* queue and starts its network call.
ProcessQueueTakes ==
  /\ UNCHANGED otherThanQueue
  /\ processing
  /\ Sending = {}
  /\ msgQueue # <<>>
  /\ msgQueue' = Tail(msgQueue)
  /\ item' = [item EXCEPT ![Head(msgQueue)].state = "sending"]
  /\ UNCHANGED <<processing, pushes, sentLog>>

\* The call of the item being sent succeeds.
ItemSent(i) ==
  /\ UNCHANGED otherThanQueue
  /\ i \in Sending
  /\ item' = [item EXCEPT ![i].state = "sent"]
  /\ sentLog' = Append(sentLog, i)
  /\ UNCHANGED <<msgQueue, processing, pushes>>

\* A processQueue() loop that a failed call ends.
ItemFailedEndsLoop(i) ==
  /\ UNCHANGED otherThanQueue
  /\ i \in Sending
  /\ item' = [item EXCEPT ![i].state = "failed"]
  /\ processing' = FALSE
  /\ UNCHANGED <<msgQueue, pushes, sentLog>>

\* The call of the item being sent fails: the item is shown as failed and
\* the loop goes on.
ItemFailed(i) ==
  /\ UNCHANGED otherThanQueue
  /\ i \in Sending
  /\ item' = [item EXCEPT ![i].state = "failed"]
  /\ UNCHANGED <<msgQueue, processing, pushes, sentLog>>

\* processQueue() returns when the queue is empty.
ProcessQueueReturns ==
  /\ UNCHANGED otherThanQueue
  /\ processing
  /\ Sending = {}
  /\ msgQueue = <<>>
  /\ processing' = FALSE
  /\ UNCHANGED <<msgQueue, item, pushes, sentLog>>

\* The user retries a failed item: it arrives in the queue again.
RetryItem(i) ==
  /\ UNCHANGED otherThanQueue
  /\ pushes < MaxPushes
  /\ item[i].state = "failed"
  /\ msgQueue' = Append(msgQueue, i)
  /\ item' = [item EXCEPT ![i] = [state |-> "queued", order |-> pushes + 1]]
  /\ pushes' = pushes + 1
  /\ processing' = TRUE
  /\ UNCHANGED sentLog

\* The user discards a failed item.
DiscardItem(i) ==
  /\ UNCHANGED otherThanQueue
  /\ item[i].state = "failed"
  /\ item' = [item EXCEPT ![i].state = "discarded"]
  /\ UNCHANGED <<msgQueue, processing, pushes, sentLog>>

ItemSettles == \E i \in Ids : ItemSent(i) \/ ItemFailed(i)

QueueNext ==
  \/ \E i \in Ids : Submit(i)
  \/ ProcessQueueTakes
  \/ \E i \in Ids : ItemSent(i)
  \/ \E i \in Ids : ItemFailed(i)
  \/ ProcessQueueReturns
  \/ \E i \in Ids : RetryItem(i)
  \/ \E i \in Ids : DiscardItem(i)

(***************************************************************************)
(* The webhook endpoint: verifySignature and POST /fanvue (part_003)       *)
(***************************************************************************)

ToleranceSec == 300
NowSec == 1000

\* process.env.FANVUE_WEBHOOK_SECRET and a key that is not it.
TheSecret == "secret"
Keys == {TheSecret, "other"}

\* The t part of a signature header: seconds around the tolerance, a text
\* that parseInt turns into NaN, or no t part at all.
NaNStamp == -1
NoStamp == -2
Stamps == {NowSec - ToleranceSec - 1, NowSec - ToleranceSec, NowSec,
           NowSec + ToleranceSec, NowSec + ToleranceSec + 1, NaNStamp}

\* req.body.toString(): what JSON.parse and the switch make of it.
Bodies == {"notjson", "null", "message.received", "message.received:nouuid",
           "subscriber.new", "subscriber.new:nouuid", "purchase.received",
           "tip.received", "other.event"}

\* crypto.createHmac('sha256', secret).update(`${t}.${rawBody}`).digest('hex'):
\* a digest differs as soon as the key, the timestamp or the body differs.
Hmac(key, t, rawBody) == <<key, t, rawBody>>
\* A v0 part that is not 64 hex digits long, and no v0 part at all.
ShortV0 == <<"short", 0, "">>
NoV0 == <<"none", 0, "">>
HexLength(v) == IF v = ShortV0 THEN 5 ELSE 64

\* The x-fanvue-signature header: absent, or the parts t and v0 it holds.
AbsentHeader == [present |-> FALSE, t |-> NoStamp, v0 |-> NoV0]
SignatureHeaders ==
  {AbsentHeader} \cup
  [present : {TRUE},
   t : Stamps \cup {NoStamp},
   v0 : {Hmac(k, t, b) : k \in Keys, t \in {NowSec, NowSec - ToleranceSec - 1},
                         b \in {"message.received", "subscriber.new"}}
        \cup {ShortV0, NoV0}]

\* A verifySignature without the test of the timestamp's age.
verifySignatureAnyAge(secretSet, rawBody, header) ==
  IF ~secretSet \/ ~header.present THEN "false"
  ELSE IF header.t = NoStamp \/ header.v0 = NoV0 THEN "false"
  ELSE IF HexLength(header.v0) # HexLength(Hmac(TheSecret, header.t, rawBody))
       THEN "throws"
  ELSE IF header.v0 = Hmac(TheSecret, header.t, rawBody) THEN "true"
  ELSE "false"

\* part_003:11-30. "true" | "false" | "throws" (timingSafeEqual on buffers
\* of different length).
verifySignature(secretSet, rawBody, header) ==
  IF ~secretSet \/ ~header.present THEN "false"
  ELSE IF header.t = NoStamp \/ header.v0 = NoV0 THEN "false"
  ELSE IF /\ header.t # NaNStamp
          /\ (IF NowSec - header.t >= 0 THEN NowSec - header.t
              ELSE header.t - NowSec) > ToleranceSec
       THEN "false"
  ELSE IF HexLength(header.v0) # HexLength(Hmac(TheSecret, header.t, rawBody))
       THEN "throws"
  ELSE IF header.v0 = Hmac(TheSecret, header.t, rawBody) THEN "true"
  ELSE "false"

IdleWebhook ==
  [pc |-> "idle", secretSet |-> FALSE, header |-> AbsentHeader, rawBody |-> "null",
   convFound |-> FALSE, res |-> 0, writes |-> {}, outcome |-> "none"]

WebhookIdle == webhook = IdleWebhook

\* A delivery arrives at POST /api/webhooks/fanvue.
FanvueDelivers(secretSet, header, rawBody, convFound) ==
  /\ webhook.pc = "idle"
  /\ UNCHANGED otherThanWebhook
  /\ webhook' = [pc |-> "received", secretSet |-> secretSet, header |-> header,
                 rawBody |-> rawBody, convFound |-> convFound, res |-> 0,
                 writes |-> {}, outcome |-> "none"]

\* A handler that answers 500 from its catch when nothing was answered.
FanvueCatchAnswers ==
  /\ UNCHANGED otherThanWebhook
  /\ webhook.pc = "caught"
  /\ webhook' = [webhook EXCEPT !.pc = "done", !.outcome = "error", !.res = 500]

\* part_003:39: res.status(200).json({ received: true }).
FanvueAcknowledges ==
  /\ UNCHANGED otherThanWebhook
  /\ webhook.pc = "received"
  /\ webhook' = [webhook EXCEPT !.pc = "acked", !.res = 200]

\* part_003:42-49: with a secret configured, a delivery that fails
\* verifySignature is ignored.
FanvueVerifies ==
  /\ UNCHANGED otherThanWebhook
  /\ webhook.pc = "acked"
  /\ LET v == verifySignature(webhook.secretSet, webhook.rawBody, webhook.header)
     IN  webhook' =
           IF webhook.secretSet /\ v = "throws"
             THEN [webhook EXCEPT !.pc = "caught"]
           ELSE IF webhook.secretSet /\ v = "false"
             THEN [webhook EXCEPT !.pc = "done", !.outcome = "ignored"]
           ELSE [webhook EXCEPT !.pc = "verified"]

\* part_003:51-113: JSON.parse and the switch on the event, up to the first
\* write of the case.
FanvueSwitches ==
  /\ UNCHANGED otherThanWebhook
  /\ webhook.pc = "verified"
  /\ webhook' =
       IF webhook.rawBody \in {"notjson", "null"}
         THEN [webhook EXCEPT !.pc = "caught"]
       ELSE IF webhook.rawBody = "message.received" /\ webhook.convFound
         THEN [webhook EXCEPT !.pc = "upsertMessage"]
       ELSE IF webhook.rawBody = "subscriber.new"
         THEN [webhook EXCEPT !.pc = "updateFan"]
       ELSE IF webhook.rawBody = "other.event"
         THEN [webhook EXCEPT !.pc = "done", !.outcome = "unhandled"]
       ELSE [webhook EXCEPT !.pc = "done", !.outcome = "processed"]

\* part_003:70-78.
FanvueUpsertsMessage ==
  /\ UNCHANGED otherThanWebhook
  /\ webhook.pc = "upsertMessage"
  /\ webhook' = [webhook EXCEPT !.pc = "updateConversation",
                                !.writes = @ \cup {"messages"}]

\* part_003:81-89.
FanvueUpdatesConversation ==
  /\ UNCHANGED otherThanWebhook
  /\ webhook.pc = "updateConversation"
  /\ webhook' = [webhook EXCEPT !.pc = "done", !.outcome = "processed",
                                !.writes = @ \cup {"conversations"}]

\* part_003:97-101.
FanvueUpdatesFan ==
  /\ UNCHANGED otherThanWebhook
  /\ webhook.pc = "updateFan"
  /\ webhook' = [webhook EXCEPT !.pc = "done", !.outcome = "processed",
                                !.writes = @ \cup {"fans"}]

\* part_003:114-116: the catch logs the error.
FanvueCatch ==
  /\ UNCHANGED otherThanWebhook
  /\ webhook.pc = "caught"
  /\ webhook' = [webhook EXCEPT !.pc = "done", !.outcome = "error"]

WebhookNext ==
  \/ \E secretSet, convFound \in BOOLEAN, header \in SignatureHeaders, rawBody \in Bodies :
       FanvueDelivers(secretSet, header, rawBody, convFound)
  \/ FanvueAcknowledges
  \/ FanvueVerifies
  \/ FanvueSwitches
  \/ FanvueUpsertsMessage
  \/ FanvueUpdatesConversation
  \/ FanvueUpdatesFan
  \/ FanvueCatch

(***************************************************************************)
(* Specifications                                                          *)
(***************************************************************************)

InitRetry == RetryInit /\ TokenInit /\ CacheInit /\ FetchIdle /\ PollerIdle /\ QueueIdle /\ WebhookIdle
SpecRetry == InitRetry /\ [][RetryNext]_vars

\* Every invocation of fn settles and every timer fires.
SpecRetryFair == SpecRetry /\ WF_vars(RetryNext)

\* One withRetry call that is not running.
RetryIdle ==
  /\ maxRetries = 0
  /\ baseDelayMs = DefaultBaseDelayMs
  /\ attempt = 0
  /\ rpc = "returned"
  /\ calls = 0
  /\ sleeps = 0
  /\ waits = <<>>
  /\ jitters = <<>>
  /\ lastErr = NoError
  /\ dateNow = StartMs
  /\ outcome = [kind |-> "none"]

\* The token lifecycle at clock readings around the safety window: the
\* stored token has a minute more than the window left, exactly the window,
\* a minute less, or nothing.
WindowClock == {ExpiresInMin - SafetyWindowMin - 1, ExpiresInMin - SafetyWindowMin,
                ExpiresInMin - SafetyWindowMin + 1, ExpiresInMin}
InitWindow ==
  /\ is_active = [a \in Accounts |-> TRUE]
  /\ needs_reconnect = [a \in Accounts |-> FALSE]
  /\ access_token_enc = [a \in Accounts |-> Encrypt(1)]
  /\ refresh_token_enc = [a \in Accounts |-> Encrypt(1)]
  /\ token_expires_at = [a \in Accounts |-> ExpiresInMin]
  /\ provCurrent = [a \in Accounts |-> 1]
  /\ provIssued = [a \in Accounts |-> 1]
  /\ nowMin \in WindowClock
  /\ task = [t \in Tasks |-> IdleTask]
  /\ lastAnswer = "none"
  /\ RetryIdle /\ CacheInit /\ FetchIdle /\ PollerIdle /\ QueueIdle /\ WebhookIdle
SpecWindow == InitWindow /\ [][WindowNext]_vars

InitToken == TokenInit /\ RetryIdle /\ CacheInit /\ FetchIdle /\ PollerIdle /\ QueueIdle /\ WebhookIdle
SpecToken == InitToken /\ [][TokenNext]_vars
SpecCycle == InitToken /\ [][CycleNext]_vars

\* The cache model alone; the accounts and withRetry stay idle.  SpecInbox
\* has the platform-to-cache writers (poller, sync-now, webhook); SpecCache
\* adds the send route.
InitInbox == CacheInit /\ TokenInit /\ RetryIdle /\ FetchIdle /\ PollerIdle /\ QueueIdle /\ WebhookIdle
SpecInbox == InitInbox /\ [][InboxNext]_vars
\* A poll, a sync-now run and timely webhook deliveries on one conversation.
InitRace == CacheInit /\ TokenInit /\ RetryIdle /\ FetchIdle /\ PollerIdle /\ QueueIdle /\ WebhookIdle
SpecRace == InitRace /\ [][RaceNext]_vars
InitRoutes == CacheInit /\ TokenInit /\ RetryIdle /\ FetchIdle /\ PollerIdle /\ QueueIdle /\ WebhookIdle
SpecRoutes == InitRoutes /\ [][RoutesNext]_vars
InitQueue ==
  QueueIdle /\ RetryIdle /\ TokenInit /\ CacheInit /\ FetchIdle /\ PollerIdle /\ WebhookIdle
SpecQueue == InitQueue /\ [][QueueNext]_vars
\* The loop's next iteration is taken and a network call settles.
SpecQueueFair ==
  SpecQueue /\ WF_vars(ProcessQueueTakes) /\ WF_vars(ItemSettles)
InitWebhook ==
  WebhookIdle /\ QueueIdle /\ RetryIdle /\ TokenInit /\ CacheInit /\ FetchIdle /\ PollerIdle
SpecWebhook == InitWebhook /\ [][WebhookNext]_vars
InitConverge ==
  CacheInit /\ TokenInit /\ RetryIdle /\ FetchIdle /\ PollerIdle /\ QueueIdle /\ WebhookIdle
\* cron keeps firing and every step of a poll is taken; a message fetch that
\* is attempted again and again succeeds in the end.
SpecConverge ==
  /\ InitConverge /\ [][ConvergeNext]_vars
  /\ WF_vars(PollGetChats) /\ WF_vars(PollReadExisting)
  /\ WF_vars(PollUpsertConversation) /\ WF_vars(PollUpsertMessages)
  /\ WF_vars(PollFinish)
  /\ WF_vars(\E ok \in BOOLEAN : PollGetChatMessages(ok))
  /\ SF_vars(PollGetChatMessages(TRUE))
InitCache == CacheInit /\ TokenInit /\ RetryIdle /\ FetchIdle /\ PollerIdle /\ QueueIdle /\ WebhookIdle
SpecCache == InitCache /\ [][CacheNext]_vars

\* buildChunks on every range of days, reversed and empty ranges included.
InitChunks ==
  /\ startDate \in Days
  /\ endDate \in Days
  /\ fetchKind = "earnings"
  /\ cursorLimit = 0
  /\ chunks = <<>>
  /\ fpc = "called"
  /\ batchAt = 0
  /\ win = <<>>
  /\ allData = <<>>
  /\ RetryIdle /\ TokenInit /\ CacheInit /\ PollerIdle /\ QueueIdle /\ WebhookIdle
SpecChunks == InitChunks /\ [][ChunksNext]_vars

\* One fetch over an empty, a reversed, a one-window and the widest range,
\* against a remote that pages at most MaxCursorPages deep.
FetchRanges == {<<0, 0>>, <<5, 0>>, <<0, 20>>, <<0, MaxDay>>}
InitFetch ==
  /\ \E r \in FetchRanges : startDate = r[1] /\ endDate = r[2]
  /\ fetchKind \in {"earnings", "subscribers"}
  /\ cursorLimit \in 0..MaxCursorPages
  /\ chunks = <<>>
  /\ fpc = "called"
  /\ batchAt = 0
  /\ win = <<>>
  /\ allData = <<>>
  /\ RetryIdle /\ TokenInit /\ CacheInit /\ PollerIdle /\ QueueIdle /\ WebhookIdle
SpecFetch == InitFetch /\ [][FetchNext]_vars

\* One window of fetchEarnings against a remote that pages to any depth, up
\* to a nextCursor on every page the cap lets through and beyond.
InitPages ==
  /\ startDate = 0
  /\ endDate = ChunkDays
  /\ fetchKind = "earnings"
  /\ cursorLimit \in 0..(PageCap + 2)
  /\ chunks = <<>>
  /\ fpc = "called"
  /\ batchAt = 0
  /\ win = <<>>
  /\ allData = <<>>
  /\ RetryIdle /\ TokenInit /\ CacheInit /\ PollerIdle /\ QueueIdle /\ WebhookIdle
SpecPages == InitPages /\ [][FetchNext]_vars

\* One firing of the cron callback over any number of eligible accounts.
InitTick ==
  /\ tick = [IdleTick EXCEPT !.pc = "fired"]
  /\ runs = <<>>
  /\ sync_state = [a \in SyncAccounts |-> NoSyncRow]
  /\ flagged = [a \in SyncAccounts |-> FALSE]
  /\ RetryIdle /\ TokenInit /\ CacheInit /\ FetchIdle /\ QueueIdle /\ WebhookIdle
SpecTick == InitTick /\ [][TickNext]_vars

\* pollAccount called MaxRuns times on one account by ticks that overlap
\* (cron fires every minute whether or not the last callback returned),
\* on a row a cycle before left absent, idle or in error.
PriorRows == {NoSyncRow,
              IdleRow(NoSyncRow, PriorTime),
              ErrorRow(IdleRow(NoSyncRow, PriorTime), "500")}
InitSync ==
  /\ tick = IdleTick
  /\ runs = [e \in 1..MaxRuns |-> CalledRun(1)]
  /\ \E prior \in PriorRows :
       sync_state = [a \in SyncAccounts |-> IF a = 1 THEN prior ELSE NoSyncRow]
  /\ flagged = [a \in SyncAccounts |-> FALSE]
  /\ RetryIdle /\ TokenInit /\ CacheInit /\ FetchIdle /\ QueueIdle /\ WebhookIdle
SpecSync == InitSync /\ [][PollNext]_vars
SpecLimit == InitSync /\ [][LimitNext]_vars
SpecText == InitSync /\ [][TextNext]_vars
InitOverlap ==
  PollerIdle /\ RetryIdle /\ TokenInit /\ CacheInit /\ FetchIdle /\ QueueIdle /\ WebhookIdle
SpecOverlap == InitOverlap /\ [][OverlapNext]_vars

(***************************************************************************)
(* Claims                                                                  *)
(***************************************************************************)

\* Number of messages rows holding a remote message id.
RowCount(rows, m) == Cardinality(RowsOf(rows, m))

\* C1: applying a remote message (same remote message id) to the cache
\* again, by the poller, the webhook or both in any order, leaves exactly
\* one row for that id: no id ever has two rows, a stored id keeps its one
\* row, and every application of an id ends with exactly one row for it.
C1_SamePayloadOneRow ==
  [][ /\ \A m \in 1..MaxThread : RowCount(messages', m) <= 1
      /\ \A m \in 1..MaxThread :
           RowCount(messages, m) = 1 => RowCount(messages', m) = 1
      /\ PollUpsertMessages =>
           \A m \in 1..pollSt.msgs : RowCount(messages', m) = 1
      /\ HookUpsertMessage => RowCount(messages', hookSt.data) = 1
    ]_vars

\* C1 witness: the webhook has just applied a message whose one row is the
\* row the poller wrote; a newer message is on the platform already.
C1_Witness ==
  /\ hookSt.pc = "conv"
  /\ messages # {}
  /\ RowsOf(messages, hookSt.data) = {PollRow(hookSt.data)}
  /\ hookSt.data < Len(thread)

\* The poll's entry is not strictly newer than the cached row it read.
NotNewer(st) ==
  /\ st.existingConv.exists
  /\ ~(st.lastMsg.sentAt > st.existingConv.last_message_at)

\* C2: a poll whose entry has a cached conversation row and a last-message
\* timestamp not strictly greater than the cached last_message_at never
\* reaches the conversation upsert or the message sync, and a poll step
\* outside those two statements writes neither table.
C2_NotNewerEntryWritesNothing ==
  /\ [](NotNewer(pollSt) => pollSt.pc \notin {"upsertConv", "fetch", "upsertMsgs", "done"})
  /\ [][ (pollSt' # pollSt /\ pollSt.pc \notin {"upsertConv", "upsertMsgs"})
           => UNCHANGED <<conversation, messages>> ]_vars

\* C2 witness: the poll skipped an entry whose timestamp equals the cached
\* one, while a message of the thread is not in the messages table.
C2_Witness ==
  /\ pollSt.pc = "skip"
  /\ pollSt.lastMsg # NoMsg
  /\ pollSt.existingConv.exists
  /\ pollSt.lastMsg.sentAt = pollSt.existingConv.last_message_at
  /\ RowCount(messages, pollSt.lastMsg.uuid) = 0

\* C3: the stored last_message_at of the conversation key never decreases,
\* whatever the interleaving of polls, sync-now runs, webhook deliveries and
\* sends.
C3_LastMessageAtNeverDecreases ==
  [][conversation'.last_message_at >= conversation.last_message_at]_vars

\* Refresh POSTs in flight for an account.
InFlight(a) == {t \in Tasks : Acct(t) = a /\ task[t].pc = "posting"}
NoTaskIn(pcs) == \A t \in Tasks : task[t].pc \notin pcs
TransientAnswers == {"malformed", "500", "network"}

\* C4: refreshes are single-flight per account: at most one refresh POST of
\* an account is in flight at any time (a caller arriving meanwhile shares
\* that refresh instead of posting again).
C4_SingleFlightRefresh == \A a \in Accounts : Cardinality(InFlight(a)) <= 1

\* C5: a refresh that fails with a network error, a 5xx or an unusable body
\* leaves is_active and needs_reconnect as they were and stores nothing, the
\* error reaches the caller (no token is delivered: the handler neither
\* deactivates nor calls the API), and the account stays eligible for the
\* next tick if it was.
C5_TransientRefreshFailureKeepsAccount ==
  [][ \A t \in Tasks, ans \in TransientAnswers :
        RefreshFails(t, ans) =>
          /\ UNCHANGED dbVars
          /\ task'[t].pc \notin {"deact", "persist", "api"}
          /\ Eligible(Acct(t)) => is_active'[Acct(t)] /\ ~needs_reconnect'[Acct(t)]
    ]_vars

\* C5 witness: a refresh has just failed with a 5xx and the account is
\* still active, not flagged, with its tokens stored.
C5_Witness ==
  /\ lastAnswer = "500"
  /\ NoTaskIn({"posting", "persist", "deact"})
  /\ is_active["a1"] /\ ~needs_reconnect["a1"]
  /\ access_token_enc["a1"] # NullEnc

\* C6: on a 401 or 403 from the token endpoint refreshToken runs the
\* deactivation, which sets is_active false and needs_reconnect true, and
\* then throws: the caller gets no token (no API call, nothing stored).
C6_DefinitiveRefreshFailureDeactivates ==
  [][ \A t \in Tasks :
        /\ \A ans \in {"401", "403"} :
             RefreshFails(t, ans) =>
               task'[t].pc = "deact" /\ task'[t].answer = ans /\ UNCHANGED dbVars
        /\ DeactivateApplied(t) =>
             /\ ~is_active'[Acct(t)] /\ needs_reconnect'[Acct(t)]
             /\ task'[t].pc \notin {"persist", "api"}
             /\ UNCHANGED <<access_token_enc, refresh_token_enc, token_expires_at>>
        /\ task'[t].pc = "deact" => task'[t].answer \in {"401", "403"}
    ]_vars

\* C6 witness: the token endpoint answered 403 and the account is now
\* inactive and flagged, its token columns untouched.
C6_Witness ==
  /\ lastAnswer = "403"
  /\ NoTaskIn({"deact"})
  /\ ~is_active["a1"] /\ needs_reconnect["a1"]
  /\ refresh_token_enc["a1"] # NullEnc

\* C7: once an account is flagged (is_active false, needs_reconnect true)
\* no tick or job run starts on it, no poll or job issues a refresh request
\* for it, and only the OAuth callback makes it active or clears the flag.
C7_FlaggedAccountLeftAloneUntilReconnect ==
  [][ /\ \A t \in Tasks :
           (task[t].pc = "idle" /\ task'[t].pc # "idle") =>
             is_active[Acct(t)] /\ ~needs_reconnect[Acct(t)]
      /\ \A t \in Tasks :
           (task[t].pc # "posting" /\ task'[t].pc = "posting") =>
             ~(~is_active'[Acct(t)] /\ needs_reconnect'[Acct(t)])
      /\ \A a \in Accounts :
           ((~is_active[a] /\ is_active'[a]) \/ (needs_reconnect[a] /\ ~needs_reconnect'[a]))
             => OAuthCallback(a)
    ]_vars

RetryDone == rpc \in {"returned", "thrown"}
LastWait == waits[Len(waits)]

\* C8: when fn rejects with a status other than 429 (or with no status),
\* withRetry throws that very error at once: no sleep is started, fn is not
\* invoked again, and nothing happens after the throw.
C8_NonRateLimitRethrown ==
  [][ /\ (rpc = "inflight" /\ rpc' \in {"thrown", "sleeping"}
             /\ lastErr'.status # 429)
          => /\ rpc' = "thrown"
             /\ outcome' = [kind |-> "thrown", err |-> lastErr']
             /\ sleeps' = sleeps
             /\ calls' = calls
      /\ (rpc = "thrown" => rpc' = "thrown" /\ calls' = calls /\ sleeps' = sleeps)
    ]_vars

\* C8 witness: a non-429 error thrown after an earlier retried 429.
C8_Witness ==
  /\ rpc = "thrown"
  /\ outcome = [kind |-> "thrown", err |-> lastErr]
  /\ lastErr.status = 500
  /\ lastErr.retryAfter.kind = "seconds"
  /\ calls = 2
  /\ sleeps = 1

\* The counters of one withRetry call, by position.
RetryCounts ==
  /\ calls <= maxRetries + 1
  /\ attempt <= maxRetries
  /\ rpc = "start" => calls = attempt /\ sleeps = attempt
  /\ rpc = "inflight" => calls = attempt + 1 /\ sleeps = attempt
  /\ rpc = "sleeping" =>
       calls = attempt + 1 /\ sleeps = attempt + 1 /\ lastErr.status = 429
  /\ RetryDone => calls = attempt + 1 /\ sleeps = attempt
  /\ (rpc = "thrown" /\ lastErr.status = 429) =>
       /\ attempt = maxRetries
       /\ calls = maxRetries + 1
       /\ outcome = [kind |-> "thrown", err |-> lastErr]

\* C9: fn is invoked at most maxRetries+1 times, every retried 429 is
\* followed by exactly one sleep and one re-invocation, the 429 that arrives
\* after maxRetries retries is rethrown unmodified, and withRetry ends with
\* a result or an error when every invocation of fn settles.
C9_BoundedRetriesAndTermination == []RetryCounts /\ <>RetryDone

\* C9 witness: the 429 after the last allowed retry has been rethrown.
C9_Witness ==
  /\ rpc = "thrown"
  /\ lastErr.status = 429
  /\ maxRetries >= 2
  /\ calls = maxRetries + 1
  /\ sleeps = maxRetries

\* C10: on a retried 429 a Retry-After value takes precedence: a numeric
\* value N gives exactly N*1000 ms, no jitter drawn, whatever attempt and
\* baseDelayMs are; an HTTP-date gives max(0, date - now); only without a
\* Retry-After value is the wait baseDelayMs * 2^attempt plus the jitter.
C10_RetryAfterPrecedence ==
  rpc = "sleeping" =>
    LET h == lastErr.retryAfter IN
    /\ h.kind = "seconds" => LastWait = h.n * 1000 /\ jitters[Len(jitters)] = 0 - 1
    /\ h.kind = "date" => LastWait = Max(0, h.t - dateNow)
    /\ h.kind \in {"absent", "empty"} =>
         /\ jitters[Len(jitters)] \in 0..(JitterRangeMs - 1)
         /\ LastWait = baseDelayMs * (2 ^ attempt) + jitters[Len(jitters)]

\* C10 witness: Retry-After: 2 on the third attempt with a non-default
\* baseDelayMs waits 2000 ms.
C10_Witness ==
  /\ rpc = "sleeping"
  /\ lastErr.retryAfter = [kind |-> "seconds", n |-> 2]
  /\ attempt = 2
  /\ baseDelayMs # DefaultBaseDelayMs
  /\ LastWait = 2000

\* C11: every wait computed by withRetry is >= 0 ms, whatever the
\* Retry-After value (numeric, HTTP-date also in the past, none) and the
\* attempt.
C11_WaitNeverNegative == \A i \in 1..Len(waits) : waits[i] >= 0

\* Two successive waits that both took the exponential path (consecutive
\* 429s without a Retry-After value).
BackoffPairs ==
  {i \in 1..(Len(waits) - 1) : jitters[i] # 0 - 1 /\ jitters[i + 1] # 0 - 1}

\* C12 as stated: on consecutive 429s without Retry-After each wait is >=
\* the previous one, for every jitter outcome and every baseDelayMs > 0.
C12_BackoffNonDecreasingAnyBase ==
  \A i \in BackoffPairs : waits[i + 1] >= waits[i]

\* C12 amended: the same for every baseDelayMs not below the jitter range
\* (500 ms), the default 1000 ms included.
C12_BackoffNonDecreasing ==
  baseDelayMs >= JitterRangeMs => \A i \in BackoffPairs : waits[i + 1] >= waits[i]

\* C12 witness: at baseDelayMs = 500 the largest jitter was followed by the
\* smallest, and a third backoff wait was computed after them.
C12_Witness ==
  /\ baseDelayMs = JitterRangeMs
  /\ Len(waits) >= 3
  /\ BackoffPairs = {1, 2}
  /\ jitters[1] = JitterRangeMs - 1
  /\ jitters[2] = 0
  /\ waits[2] > waits[1]

\* The dates a window asks the remote for: the remote includes the full
\* start day and the full end day.
DatesOf(c) == c.startDate..c.endDate
WindowsWith(d) == {i \in 1..Len(chunks) : d \in DatesOf(chunks[i])}
Width(c) == c.endDate - c.startDate

\* C13: for start < end the windows of buildChunks cover every date of
\* [start, end] and no date lies in two windows, so a sum over the windows
\* counts each date once.
C13_WindowsCoverEachDateOnce ==
  (fpc = "loop" /\ startDate < endDate) =>
    \A d \in startDate..endDate : Cardinality(WindowsWith(d)) = 1

\* C14: for start < end buildChunks returns ceil((end - start) / 28)
\* windows in ascending order, the first starting at start, each starting
\* where the previous one ends, the last ending at end, all but the last 28
\* days wide and the last between 1 and 28 days wide.
C14_WindowCountAndWidths ==
  (fpc = "loop" /\ startDate < endDate) =>
    /\ Len(chunks) = (endDate - startDate + ChunkDays - 1) \div ChunkDays
    /\ chunks[1].startDate = startDate
    /\ chunks[Len(chunks)].endDate = endDate
    /\ \A i \in 1..(Len(chunks) - 1) :
         /\ chunks[i + 1].startDate = chunks[i].endDate
         /\ Width(chunks[i]) = ChunkDays
    /\ Width(chunks[Len(chunks)]) \in 1..ChunkDays

\* C14 witness: 2026-01-01..2026-03-15 (73 days) gives windows of 28, 28
\* and 17 days.
C14_Witness ==
  /\ fpc = "loop"
  /\ endDate - startDate = 73
  /\ Len(chunks) = 3
  /\ Width(chunks[1]) = 28 /\ Width(chunks[2]) = 28 /\ Width(chunks[3]) = 17

\* C15: for a reversed or zero-length range buildChunks returns exactly one
\* window, the given (startDate, endDate).
C15_DegenerateRangeOneWindow ==
  (fpc = "loop" /\ startDate >= endDate) =>
    chunks = <<[startDate |-> startDate, endDate |-> endDate]>>

\* C15 witness: a reversed range more than one window wide.
C15_Witness ==
  /\ fpc = "loop"
  /\ startDate - endDate > ChunkDays
  /\ Len(chunks) = 1
  /\ chunks[1].startDate = startDate /\ chunks[1].endDate = endDate

\* The pages 1..n of window w, in request order.
PagesInOrder(w, n) == [k \in 1..n |-> <<w, k>>]
Done(w) == win[w].pc \in {"finished", "failed"}
InProgress == {w \in DOMAIN win : win[w].pc = "requesting"}

\* C16: for one window, a further page is requested only after a response
\* with a non-null cursor, the fetch stops at the first response without
\* one, at most 20 requests are issued however long the remote keeps
\* handing out cursors, and the window's result is the fetched pages in
\* request order.
C16_PagingBoundedAndOrdered ==
  \A w \in DOMAIN win :
    /\ win[w].requests <= PageCap
    /\ (win[w].pc = "requesting" /\ win[w].requests > 1) => win[w].cursor # NoCursor
    /\ (win[w].pc = "finished" /\ win[w].requests < PageCap) => win[w].cursor = NoCursor
    /\ win[w].pc = "finished" => win[w].data = PagesInOrder(w, win[w].requests)
    /\ win[w].pc \in {"requesting", "failed"} =>
         win[w].data = PagesInOrder(w, win[w].requests - 1)

\* C16 witness: the remote still handed out a cursor on the 20th page and
\* the window stopped there with its 20 pages.
C16_Witness ==
  /\ cursorLimit > PageCap
  /\ win # <<>>
  /\ win[1].pc = "finished"
  /\ win[1].requests = PageCap
  /\ win[1].cursor # NoCursor
  /\ Len(win[1].data) = PageCap

\* C17: at most 3 windows have a fetch in progress at any time, and windows
\* are started only when no window of an earlier batch is still in progress.
C17_BoundedFanOut ==
  /\ [](Cardinality(InProgress) <= 3)
  /\ [][ (\E w \in DOMAIN win : win[w].pc = "waiting" /\ win'[w].pc # "waiting")
           => \A v \in DOMAIN win : win[v].pc = "waiting" \/ Done(v) ]_vars

\* C17 witness: the fourth window is being fetched after the first three
\* have finished, one of them with a failure.
C17_Witness ==
  /\ Len(chunks) = 4
  /\ InProgress = {4}
  /\ \A v \in 1..3 : Done(v)
  /\ win[2].pc = "failed"
  /\ Len(allData) >= 2

\* C18: a window whose fetch failed contributes an empty result, the other
\* windows contribute their pages unchanged, and the fetch returns.
C18_FailedWindowContributesNothing ==
  /\ \A w \in DOMAIN win : win[w].pc = "failed" => win[w].data = <<>>
  /\ fpc = "returned" =>
       allData = ConcatData(
         [w \in DOMAIN win |->
            [data |-> IF win[w].pc = "failed" THEN <<>>
                      ELSE PagesInOrder(w, win[w].requests)]],
         1, Len(chunks))

\* ---- the poller's sync state and tick

RunsOf(a) == {e \in DOMAIN runs : runs[e].account = a}
Started(e) == runs[e].pc \in {"marked", "chats", "caught", "refreshing", "fulfilled"}
Settled(a) == \A e \in RunsOf(a) : runs[e].pc \in {"waiting", "fulfilled"}
FinalWrite(e, status) ==
  /\ Len(runs'[e].wrote) = Len(runs[e].wrote) + 1
  /\ runs'[e].wrote[Len(runs'[e].wrote)] = status

\* C19: every execution of pollAccount has written 'syncing' before its
\* first remote call (getChats) is in flight and writes nothing else before
\* it; an execution that has finished wrote exactly one more status, 'idle'
\* or 'error'; the idle write leaves the row with the error cleared and
\* last_synced_at set, the error write leaves it with the caught error's
\* message; when no execution of an account is in progress its status is not
\* 'syncing'; and the status of every row is idle, syncing or error.
C19_SyncStatusLifecycle ==
  /\ [](/\ \A e \in DOMAIN runs :
            /\ Started(e) => /\ Len(runs[e].wrote) >= 1
                             /\ runs[e].wrote[1] = "syncing"
            /\ runs[e].pc = "marked" => runs[e].wrote = <<"syncing">>
            /\ runs[e].pc = "fulfilled" =>
                  /\ Len(runs[e].wrote) = 2
                  /\ runs[e].wrote[2] \in {"idle", "error"}
        /\ \A a \in SyncAccounts :
            /\ Settled(a) => sync_state[a].sync_status # "syncing"
            /\ sync_state[a] # NoSyncRow =>
                  sync_state[a].sync_status \in {"idle", "syncing", "error"})
  /\ [][\A e \in DOMAIN runs :
          e \in DOMAIN runs' =>
            /\ FinalWrite(e, "idle") =>
                  /\ sync_state'[runs[e].account].sync_status = "idle"
                  /\ sync_state'[runs[e].account].error_message = NullMsg
                  /\ sync_state'[runs[e].account].last_synced_at # NullTs
            /\ FinalWrite(e, "error") =>
                  /\ sync_state'[runs[e].account].sync_status = "error"
                  /\ runs[e].err # "none"
                  /\ sync_state'[runs[e].account].error_message = runs[e].err]_vars

\* Two overlapping executions on a row left in error: one ended in error, the
\* other on an empty or processed chat list, and the row is idle and clean.
C19_Witness ==
  /\ tick = IdleTick
  /\ Len(runs) >= 2
  /\ \A e \in DOMAIN runs : runs[e].pc = "fulfilled"
  /\ runs[1].wrote = <<"syncing", "error">>
  /\ runs[2].wrote = <<"syncing", "idle">>
  /\ sync_state[1] = IdleRow(NoSyncRow, WriteTime(2))

\* C20: when the tick callback returns, every account of the selected list
\* has had pollAccount called exactly once and that call has settled,
\* whatever the other polls did; no account is ever called twice; an
\* account's sync row and reconnect flag change only in steps of its own
\* poll; and a poll that failed settles as fulfilled, so the callback only
\* ever returns.
C20_TickPollsEveryAccountOnce ==
  /\ [](/\ tick.pc \in {"idle", "fired", "loop", "awaiting", "returned"}
        /\ \A e \in DOMAIN runs : runs[e].calls <= 1
        /\ tick.pc = "returned" =>
              \A a \in Members(tick.accounts) :
                /\ Cardinality(RunsOf(a)) = 1
                /\ \A e \in RunsOf(a) : /\ runs[e].calls = 1
                                         /\ runs[e].pc = "fulfilled")
  /\ [][\A a \in SyncAccounts :
          (sync_state'[a] # sync_state[a] \/ flagged'[a] # flagged[a]) =>
            \E e \in DOMAIN runs :
              /\ runs[e].account = a
              /\ e \in DOMAIN runs'
              /\ runs'[e] # runs[e]]_vars

\* A tick over two chunks returned: the first account failed on 401 and was
\* flagged, the second failed otherwise, and the rest, the one of the second
\* chunk included, were synced.
C20_Witness ==
  /\ tick.pc = "returned"
  /\ Len(tick.chunks) = 2
  /\ runs[1].err = "401" /\ flagged[1]
  /\ sync_state[1].sync_status = "error"
  /\ runs[2].err = "500"
  /\ \A a \in Members(tick.accounts) \ {1, 2} :
        sync_state[a].sync_status = "idle"

\* ---- the tick's groups, refreshes of a poll cycle

\* The polls of the tick that have been called and have not settled.
Polling == {e \in DOMAIN runs : runs[e].pc \notin {"waiting", "fulfilled"}}

\* C21: at most 5 polls of a tick are in progress at any time; a poll is
\* called only in a state where every poll called before has settled; and a
\* step in which one poll fails (its error is caught or written) changes no
\* other poll of its group.
C21_GroupsOfFiveInTurn ==
  /\ [](Cardinality(Polling) <= 5)
  /\ [][\A e \in DOMAIN runs :
          e \in DOMAIN runs' =>
            /\ (runs[e].pc = "waiting" /\ runs'[e].pc # "waiting") =>
                  \A f \in DOMAIN runs :
                    runs[f].pc \in {"waiting", "fulfilled"}
            /\ (\/ runs'[e].err # runs[e].err
                \/ (runs[e].pc = "caught" /\ runs'[e].pc # "caught")) =>
                  \A f \in DOMAIN runs \ {e} : runs'[f] = runs[f]]_vars

\* The second group is running after a first group of five in which a poll
\* failed and the others went on to finish.
C21_Witness ==
  /\ tick.pc = "awaiting"
  /\ tick.at = 2
  /\ Len(tick.chunks[1]) = 5
  /\ runs[1].err = "500"
  /\ \A e \in 2..5 : runs[e].wrote = <<"syncing", "idle">>
  /\ Polling # {}

\* C22: a poll that has come to its catch's refresh on an authorization
\* failure has issued exactly one refresh POST since it started.
C22_OneRefreshPerFailedPoll ==
  \A t \in PollTasks :
    /\ task[t].origin = "catch" => task[t].refreshes = 1
    /\ task[t].refreshes <= 1

\* ---- concurrent reconcilers

Reconciling == pollSt.pc # "idle" \/ syncSt.pc # "idle" \/ hookSt.pc # "idle"

\* C23: whenever the reconcilers of a conversation have all finished, its
\* row holds the newest last-message state the remote has handed to any of
\* them (as a chat-list entry or a webhook event), as it does after every
\* serial execution; each webhook event is delivered while its message is
\* the newest.
C23_ConcurrentReconcilersKeepNewest ==
  (~Reconciling /\ conversation.exists /\ seen > 0) =>
    conversation.last_message_at = thread[seen].sentAt

\* ---- the credential record

\* C24: in every state of an account's credential record is_active and
\* needs_reconnect are not both true, and an active account has both an
\* access and a refresh token stored, whatever the interleaving of refreshes
\* (poll, hourly job), OAuth callbacks and disconnects.
C24_ActiveExcludesReconnectAndHasTokens ==
  \A a \in Accounts :
    /\ ~(is_active[a] /\ needs_reconnect[a])
    /\ is_active[a] => /\ access_token_enc[a] # NullEnc
                       /\ refresh_token_enc[a] # NullEnc

\* A disconnect has cleared the account while a refresh of it holds the
\* provider's new pair, about to be stored.
C24_Witness ==
  \E t \in Tasks :
    /\ task[t].pc = "persist"
    /\ ~is_active[Acct(t)]
    /\ needs_reconnect[Acct(t)]
    /\ access_token_enc[Acct(t)] = NullEnc

\* ---- getValidToken

\* fanvueRequest of task t gets its bearer token in this step.
GetsToken(t) ==
  /\ task'[t].pc = "api"
  /\ task[t].pc # "api" \/ task'[t].stage # task[t].stage
\* getValidToken of task t calls refreshToken in this step.
GvtRefreshes(t) ==
  /\ task'[t].pc = "posting" /\ task'[t].origin = "gvt"
  /\ task[t].pc # "posting"
Remaining(st) == st.account.token_expires_at - nowMin

\* C25: a token getValidToken returns from the stored row has at least 5
\* minutes left and is returned without a refresh POST; a row with less than
\* 5 minutes left makes it refresh, and the token it then returns is the one
\* the token endpoint has just issued.
C25_NoTokenInsideSafetyWindow ==
  [][\A t \in PollTasks :
       /\ GetsToken(t) =>
             IF task[t].pc = "persist"
               THEN /\ task[t].origin = "gvt"
                    /\ Remaining(task[t]) < 5
                    /\ task'[t].token = task[t].token
               ELSE /\ Remaining(task'[t]) >= 5
                    /\ task'[t].token = Decrypt(task'[t].account.access_token_enc)
                    /\ task'[t].refreshes =
                         IF task[t].pc = "api" THEN task[t].refreshes ELSE 0
       /\ GvtRefreshes(t) => Remaining(task'[t]) < 5]_vars

\* A call answered on a stored token with exactly 5 minutes left.
C25_Witness ==
  \E t \in PollTasks :
    /\ task[t].pc = "api"
    /\ task[t].refreshes = 0
    /\ Remaining(task[t]) = 5

\* ---- refreshToken's side effect

\* refreshToken of task t returns an access token in this step.
RefreshReturns(t) == task[t].pc = "persist" /\ task'[t].pc # "persist"

C27_RateLimitNeverAccountFailure ==
  [][\A e \in DOMAIN runs :
       (runs[e].err = "429" /\ runs'[e] # runs[e]) =>
         /\ sync_state'[runs[e].account].sync_status # "error"
         /\ flagged' = flagged]_vars

\* ---- the triggering request paths

\* C28: a sync-now request whose remote call failed has not been answered
\* with a success status, and a send request that was answered 201 had its
\* message accepted by the remote.
C28_TriggeredFailureSurfaces ==
  /\ syncSt.pc = "failed" => syncSt.res \notin {200, 201}
  /\ sendSt.res \in {200, 201} => sendSt.fanvueMessageId # NullId

\* ---- the outbound send queue

\* C29: at most one queue item is being sent at any moment, and the 'sent'
\* transitions happen in the order in which the items arrived in the queue,
\* whichever way the calls settle.
C29_SentInSubmissionOrder ==
  /\ Cardinality(Sending) <= 1
  /\ \A p, q \in 1..Len(sentLog) :
       p < q => item[sentLog[p]].order < item[sentLog[q]].order

\* Two items were submitted back to back, the second while the first was
\* being sent, and both are sent.
C29_Witness ==
  /\ Len(sentLog) >= 2
  /\ sentLog[1] = 1 /\ sentLog[2] = 2
  /\ item[3].state = "queued"

ItemMoves ==
  {<<"none", "queued">>, <<"queued", "sending">>, <<"sending", "sent">>,
   <<"sending", "failed">>, <<"failed", "queued">>, <<"failed", "discarded">>}

\* C30: an item's state only moves queued -> sending -> sent or
\* sending -> failed; a failed item stays failed in the visible list until
\* the user retries or discards it; and every queued item is eventually
\* attempted, whatever failed before it.
C30_FailedItemsDoNotBlock ==
  /\ [][\A i \in Ids :
          /\ item'[i].state # item[i].state =>
                <<item[i].state, item'[i].state>> \in ItemMoves
          /\ (item[i].state = "failed" /\ item'[i].state # "failed") =>
                (RetryItem(i) \/ DiscardItem(i))]_vars
  /\ \A i \in Ids : (item[i].state = "queued") ~> (item[i].state = "sending")

\* An item failed, is still shown as failed, and an item that arrived after
\* it is being sent.
C30_Witness ==
  \E i, j \in Ids :
    /\ item[i].state = "failed"
    /\ item[j].state = "sending"
    /\ item[i].order < item[j].order

\* ---- the webhook endpoint

\* C31: the first step on a delivery is the 200 acknowledgment, taken before
\* verification and before any write, and the answer stays 200 through
\* every outcome of the processing.
C31_AcknowledgedBeforeProcessing ==
  [][/\ webhook.pc = "received" =>
          /\ webhook'.pc = "acked" /\ webhook'.res = 200
          /\ webhook'.writes = {} /\ webhook'.outcome = "none"
     /\ webhook.pc \notin {"idle", "received"} => webhook'.res = 200]_vars

\* A delivery whose processing threw was answered 200.
C31_Witness ==
  webhook.pc = "done" /\ webhook.outcome = "error" /\ webhook.res = 200

\* The signature's timestamp is more than 300 seconds old.
StaleSignature(h) ==
  h.present /\ h.t \notin {NoStamp, NaNStamp} /\ NowSec - h.t > ToleranceSec

\* The signature is not the HMAC of "<timestamp>.<raw-body>".
SignatureMismatch(h, rawBody) ==
  ~h.present \/ h.v0 # Hmac(TheSecret, h.t, rawBody)

\* C32 as stated: a delivery with a stale or non-matching signature writes
\* to none of the tables messages, conversations, fans.
C32_BadSignatureWritesNothing ==
  (\/ StaleSignature(webhook.header)
   \/ SignatureMismatch(webhook.header, webhook.rawBody)) => webhook.writes = {}

\* C32, amended: with a webhook secret configured, a delivery with a stale
\* or non-matching signature writes to none of the tables messages,
\* conversations, fans.
C32_BadSignatureWritesNothingWithSecret ==
  (/\ webhook.secretSet
   /\ \/ StaleSignature(webhook.header)
      \/ SignatureMismatch(webhook.header, webhook.rawBody)) => webhook.writes = {}

\* A message event for a known conversation, signed with the secret 301
\* seconds ago, was ignored.
C32_Witness ==
  /\ webhook.pc = "done" /\ webhook.outcome = "ignored"
  /\ webhook.secretSet /\ webhook.convFound
  /\ webhook.rawBody = "message.received"
  /\ webhook.header.t = NowSec - ToleranceSec - 1
  /\ webhook.header.v0 = Hmac(TheSecret, webhook.header.t, webhook.rawBody)

\* ---- the poll after an authorization failure

\* C33: when the refresh that follows a poll's authorization failure
\* succeeds, the poll does not end there: the failed call is issued again.
C33_RefreshedPollResumes ==
  [][\A e \in DOMAIN runs :
       RefreshSettles(e, "ok") => runs'[e].pc # "fulfilled"]_vars

\* C34: at most one reconciliation of an account is in flight at any time.
C34_OneReconciliationPerAccount ==
  \A a \in SyncAccounts :
    Cardinality({e \in DOMAIN runs :
                   runs[e].account = a /\ runs[e].pc # "fulfilled"}) <= 1

\* The status of the remote response behind a poll's error.
RemoteStatus(err) == IF err = RefreshFailed500Id401 THEN 500 ELSE ErrStatus(err)

\* C35: the catch goes on to the refresh of an authorization failure if and
\* only if the remote response behind the error carried status 401 or 403.
C35_AuthFailureByStatusOnly ==
  [][\A e \in DOMAIN runs :
       (runs[e].pc = "caught" /\ runs'[e].pc # "caught") =>
         (runs'[e].pc = "refreshing" <=> RemoteStatus(runs[e].err) \in {401, 403})]_vars

\* ---- refreshes and the stored credentials

\* C36: on an account whose stored pair only refreshes replace, a refresh
\* POST submits the refresh token stored at that moment, never one that a
\* completed refresh has replaced.
C36_RefreshSubmitsStoredToken ==
  [][\A t \in Tasks :
       (/\ task[t].pc # "posting" /\ task'[t].pc = "posting"
        /\ ~DecryptThrows(refresh_token_enc[Acct(t)])) =>
         Sent(task'[t]) >= Decrypt(refresh_token_enc[Acct(t)])]_vars

\* C37: the account is deactivated only when the provider rejects the
\* refresh token stored for it at that moment.
C37_DeactivatedOnlyOnRejectedStoredToken ==
  [][\A a \in Accounts :
       (is_active[a] /\ ~is_active'[a]) =>
         (\/ DecryptThrows(refresh_token_enc[a])
          \/ Decrypt(refresh_token_enc[a]) # provCurrent[a])]_vars

\* ---- convergence of the cache

\* The cached row carries the remote's last_message_at and the remote's
\* latest message is cached.
Converged ==
  /\ conversation.exists
  /\ conversation.last_message_at = thread[Len(thread)].sentAt
  /\ RowsOf(messages, Len(thread)) # {}

\* C38: once the remote thread has stopped changing, the cache converges to
\* it and stays converged.
C38_CacheConverges ==
  \A n \in 1..MaxThread : <>[](Len(thread) = n) => <>[](Len(thread) = n /\ Converged)

\* ---- disconnect

\* The account as the disconnect route leaves it.
Disconnected(a) ==
  /\ ~is_active[a] /\ needs_reconnect[a]
  /\ access_token_enc[a] = NullEnc /\ refresh_token_enc[a] = NullEnc

\* C39: a disconnected account keeps its cleared token fields and its flags
\* in every step that is not the reconnecting OAuth callback.
C39_DisconnectedStaysCleared ==
  [][\A a \in Accounts :
       (Disconnected(a) /\ ~is_active'[a]) =>
         /\ needs_reconnect'[a]
         /\ access_token_enc'[a] = NullEnc
         /\ refresh_token_enc'[a] = NullEnc]_vars

====
